---- MODULE Spec2Model ----
(***************************************************************************)
(* Model of the host telemetry route, src/app/api/system/route.ts.         *)
(*                                                                         *)
(* Text.  A string is a sequence of lines; a line is a sequence of tokens  *)
(* (what split(/\s+/) yields).  A token is a word or a number.  The empty  *)
(* line <<>> stands for a line holding nothing but white space, so         *)
(*   ""            is  <<>>                                                *)
(*   "abc\n"       is  << <<W("abc")>>, <<>> >>                            *)
(* and String.prototype.trim drops the blank lines at both ends.           *)
(*                                                                         *)
(* Numbers.  A JavaScript number is a rational n/d (d > 0), NaN, or an     *)
(* infinity; division by zero and Math.min/Math.max follow IEEE-754.       *)
(*                                                                         *)
(* Exceptions.  A function returns an outcome: Ret(v) or Thrown.           *)
(***************************************************************************)
EXTENDS Integers, Sequences, FiniteSets, TLC

VARIABLES
    rd,           \* readHostFile harness: the filesystem one call sees, and its result
    ip,           \* getHostIP harness: the sources one call sees, and its result
    call,         \* harness of the other functions: the inputs of one call, and its result
    env,          \* GET: the host, the container and what the container may see
    pc,           \* GET: position of the request handler
    hostMounted,  \* GET: local of the same name
    memory,       \* GET: local of the same name
    cpuInfo,      \* GET: local of the same name
    cpuUsage,     \* GET: local of the same name
    diskUsage,    \* GET: local of the same name
    response,     \* GET: what NextResponse.json was given
    served,       \* GET: requests answered so far
    reqs,         \* GET: the locals of each of several requests in flight together
    sh            \* createTempUsers.sh: one run of the script and the system it acts on

vars == <<rd, ip, call, env, pc, hostMounted, memory, cpuInfo, cpuUsage, diskUsage, response, served,
          reqs, sh>>

----------------------------------------------------------------------------
(* Text *)

\* A word, a number, and a dotted quad or the four bytes of a hexadecimal field
W(s) == [w |-> s, n |-> 0, a |-> <<>>]
N(k) == [w |-> "#", n |-> k, a |-> <<>>]
IsNum(t) == t.w = "#"

NoText == <<>>

RECURSIVE DropLeadingBlank(_)
DropLeadingBlank(t) ==
    IF Len(t) = 0 THEN t
    ELSE IF Len(Head(t)) = 0 THEN DropLeadingBlank(Tail(t))
    ELSE t

RECURSIVE DropTrailingBlank(_)
DropTrailingBlank(t) ==
    IF Len(t) = 0 THEN t
    ELSE IF Len(t[Len(t)]) = 0 THEN DropTrailingBlank(SubSeq(t, 1, Len(t) - 1))
    ELSE t

\* String.prototype.trim
trim(t) == DropTrailingBlank(DropLeadingBlank(t))

\* Array.prototype.find: the index of the first element satisfying P, or 0
FirstIndex(s, P(_)) ==
    IF \E i \in 1..Len(s) : P(s[i])
    THEN CHOOSE i \in 1..Len(s) : P(s[i]) /\ \A j \in 1..(i - 1) : ~P(s[j])
    ELSE 0

\* String.prototype.match(/(\d+)/) on a line, then parseInt: the first number
\* of the line, or -1 when the line holds no digit
FirstNumber(line) ==
    LET i == FirstIndex(line, IsNum)
    IN  IF i = 0 THEN -1 ELSE line[i].n

----------------------------------------------------------------------------
(* Outcomes *)

Ret(v) == [t |-> "ret", v |-> v]
Thrown == [t |-> "throw"]
Falls  == [t |-> "fall"]

----------------------------------------------------------------------------
(* Files *)

Missing  == [kind |-> "missing", content |-> NoText]   \* existsSync is false
Dir      == [kind |-> "dir",     content |-> NoText]   \* exists, isFile() is false
StatErr  == [kind |-> "staterr", content |-> NoText]   \* exists, statSync throws
ReadErr  == [kind |-> "readerr", content |-> NoText]   \* a file, readFileSync throws
File(c)  == [kind |-> "file",    content |-> c]

Tiers == <<"proc1", "host", "cont">>

\* isHostMounted: /host/proc, /host/sys and /host/etc all exist
isHostMounted(F) == F.hostProc /\ F.hostSys /\ F.hostEtc

\* The body of one try block of readHostFile: existsSync, statSync, isFile,
\* readFileSync, the non-empty test, and the return of the trimmed content.
TierBody(f) ==
    CASE f.kind = "missing" -> Falls
      [] f.kind = "staterr" -> Thrown
      [] f.kind = "dir"     -> Falls
      [] f.kind = "readerr" -> Thrown
      [] f.kind = "file"    ->
            IF Len(f.content) > 0 /\ Len(trim(f.content)) > 0
            THEN Ret(trim(f.content))
            ELSE Falls

\* A mutant of Catch: the exception leaves the function
CatchRethrows(o) == o

\* catch (error) { console.log(...) }: the exception is logged and the
\* function goes on with the next tier
Catch(o) == IF o.t = "throw" THEN Falls ELSE o

\* A mutant of TierOrder: the bind mount is read before the process-1 root
TierOrderHostFirst == <<"host", "proc1", "cont">>

\* The order of the three blocks of readHostFile
TierOrder == Tiers

\* Whether readHostFile enters the block of a tier
TierGuard(F, tier) ==
    CASE tier = "proc1" -> F.proc1root
      [] tier = "host"  -> isHostMounted(F)
      [] tier = "cont"  -> TRUE

TierOutcome(F, tier, path) ==
    IF TierGuard(F, tier) THEN Catch(TierBody(F.at[tier][path])) ELSE Falls

\* readHostFile from its k-th block on; the fallback producer after the last.
\* src is the tier the function logs ("Lecture depuis ...").
RECURSIVE readHostFileFrom(_, _, _, _)
readHostFileFrom(F, path, fallback, k) ==
    IF k > Len(TierOrder) THEN [t |-> "ret", v |-> fallback, src |-> "fallback"]
    ELSE LET o == TierOutcome(F, TierOrder[k], path)
         IN  CASE o.t = "ret"   -> [t |-> "ret", v |-> o.v, src |-> TierOrder[k]]
               [] o.t = "throw" -> [t |-> "throw", v |-> NoText, src |-> TierOrder[k]]
               [] o.t = "fall"  -> readHostFileFrom(F, path, fallback, k + 1)

readHostFile(F, path, fallback) == readHostFileFrom(F, path, fallback, 1)

----------------------------------------------------------------------------
(* Numbers *)

Num(n, d) == [k |-> "num", n |-> n, d |-> d]
NaN       == [k |-> "nan", n |-> 0, d |-> 1]
Infinity  == [k |-> "inf", n |-> 1, d |-> 1]
NegInfinity == [k |-> "inf", n |-> -1, d |-> 1]

Sign(n) == IF n > 0 THEN 1 ELSE IF n < 0 THEN -1 ELSE 0
Abs(n) == IF n < 0 THEN -n ELSE n

\* a / b for integers a and b, as IEEE-754 does it (0/0 is NaN, x/0 infinite)
JsDivide(a, b) ==
    IF b = 0
    THEN IF a = 0 THEN NaN ELSE IF a > 0 THEN Infinity ELSE NegInfinity
    ELSE Num(a * Sign(b), Abs(b))

\* x * m for an integer m > 0
JsTimes(x, m) == IF x.k = "num" THEN Num(x.n * m, x.d) ELSE x

\* x <= y for numbers that are not NaN
JsLeq(x, y) ==
    CASE x.k = "inf" /\ x.n < 0 -> TRUE
      [] y.k = "inf" /\ y.n > 0 -> TRUE
      [] x.k = "inf"            -> FALSE    \* x = +Infinity, y below it
      [] y.k = "inf"            -> FALSE    \* y = -Infinity, x above it
      [] OTHER                  -> x.n * y.d <= y.n * x.d

\* Math.min and Math.max: NaN when either argument is NaN
MathMin(x, y) == IF x.k = "nan" \/ y.k = "nan" THEN NaN ELSE IF JsLeq(x, y) THEN x ELSE y
MathMax(x, y) == IF x.k = "nan" \/ y.k = "nan" THEN NaN ELSE IF JsLeq(x, y) THEN y ELSE x

Zero    == Num(0, 1)
Hundred == Num(100, 1)

\* Math.min(Math.max(x, 0), 100)
Clamp(x) == MathMin(MathMax(x, Zero), Hundred)

\* A number in [0, 100]
IsPercent(x) == x.k = "num" /\ 0 <= x.n /\ x.n <= 100 * x.d

----------------------------------------------------------------------------
(* getHostMemory *)

KB == 1024

\* line.startsWith(prefix), for the words a memory or counter file holds
StartsWith(line, prefix) ==
    /\ Len(line) > 0
    /\ CASE prefix = "MemTotal"     -> line[1].w \in {"MemTotal:", "MemTotal"}
         [] prefix = "MemAvailable" -> line[1].w \in {"MemAvailable:", "MemAvailable"}
         [] prefix = "MemFree"      -> line[1].w \in {"MemFree:", "MemFree"}
         [] prefix = "cpu "         -> line[1].w = "cpu" /\ Len(line) > 1
         [] prefix = "processor"    -> line[1].w \in {"processor", "processor:"}

\* lines.find(line => line.startsWith(prefix)), then match(/(\d+)/) and
\* parseInt(..) * 1024; `otherwise` when the line or the digits are missing
KbField(lines, prefix, otherwise) ==
    LET i == FirstIndex(lines, LAMBDA l : StartsWith(l, prefix))
    IN  IF i = 0 THEN otherwise
        ELSE IF FirstNumber(lines[i]) < 0 THEN otherwise
        ELSE FirstNumber(lines[i]) * KB

\* The fallback producer of getHostMemory: os.totalmem() and os.freemem(),
\* floored to kB and written as three lines
MemFallback(os) ==
    << <<W("MemTotal:"),     N(os.totalmem \div KB), W("kB")>>,
       <<W("MemAvailable:"), N(os.freemem \div KB),  W("kB")>>,
       <<W("MemFree:"),      N(os.freemem \div KB),  W("kB")>> >>

getHostMemory(F, os) ==
    LET memInfo == readHostFile(F, "/proc/meminfo", MemFallback(os)).v
    IN  IF Len(memInfo) > 0
        THEN [ total     |-> KbField(memInfo, "MemTotal", os.totalmem),
               available |-> KbField(memInfo, "MemAvailable", os.freemem),
               free      |-> KbField(memInfo, "MemFree", os.freemem) ]
        ELSE [ total |-> os.totalmem, available |-> os.freemem, free |-> os.freemem ]

\* A mutant of MemorySnapshot: used is what is not free
MemorySnapshotFromFree(m) ==
    [ total |-> m.total, free |-> m.free, available |-> m.available,
      used |-> m.total - m.free ]

\* The memory object GET builds
MemorySnapshot(m) ==
    [ total |-> m.total, free |-> m.free, available |-> m.available,
      used |-> m.total - m.available ]

----------------------------------------------------------------------------
(* getHostCPUInfo (the count), getHostLoadAvg, getHostCPUUsage *)

\* The fallback producer of getHostCPUInfo: one model line and ONE processor
\* line when the container reports any core, "" when it reports none
CpuInfoFallback(os) ==
    IF os.cpus > 0
    THEN << <<W("model"), W("name"), W(":"), W("container-cpu")>>,
            <<W("processor"), W(":"), N(0)>> >>
    ELSE NoText

\* trimmed.startsWith("processor") and one of /^processor\s*[:=]/i,
\* /^processor\s+\d+/i
IsProcessorLine(line) ==
    /\ StartsWith(line, "processor")
    /\ \/ line[1].w = "processor:"
       \/ Len(line) > 1 /\ (line[2].w \in {":", "="} \/ IsNum(line[2]))

\* line.toLowerCase().includes("cpu(s)")
IsCpuCountLine(line) == \E i \in 1..Len(line) : line[i].w \in {"CPU(s):", "cpu(s):", "CPU(s)"}

CountWhere(s, P(_)) == Cardinality({ i \in 1..Len(s) : P(s[i]) })

\* count || 1
OrOne(n) == IF n = 0 THEN 1 ELSE n

\* lower.includes("model name") || (lower.includes("model") && lower.includes("name"))
IsModelNameLine(line) ==
    /\ \E i \in 1..Len(line) : line[i].w = "model"
    /\ \E j \in 1..Len(line) : line[j].w \in {"name", "name:"}

\* line.includes("Hardware") || line.includes("Processor") || line.includes("CPU implementer")
IsArmLine(line) ==
    \E i \in 1..Len(line) :
        \/ line[i].w \in {"Hardware", "Hardware:", "Processor", "Processor:"}
        \/ line[i].w = "CPU" /\ i < Len(line) /\ line[i + 1].w \in {"implementer", "implementer:"}

\* A word that is ":" or "=", or ends with one
EndsWithSeparator(t) == t.w \in {":", "=", "name:", "Hardware:", "Processor:", "implementer:"}

\* "Unknown" as a model
Unknown == <<W("Unknown")>>

\* The model taken from the model line: what follows the first ":" or "=",
\* trimmed; nothing (so "Unknown") when the separator ends the line; the whole
\* trimmed line when it holds no separator
ModelOfLine(modelLine) ==
    LET i == FirstIndex(modelLine, EndsWithSeparator)
    IN  IF i = 0 THEN modelLine
        ELSE IF i < Len(modelLine) THEN SubSeq(modelLine, i + 1, Len(modelLine))
        ELSE Unknown

\* The model of a text: from its first "model name" line, else from its first
\* ARM line, else "Unknown"
ModelOf(lines) ==
    LET i == FirstIndex(lines, IsModelNameLine)
        j == FirstIndex(lines, IsArmLine)
    IN  IF i # 0 THEN ModelOfLine(lines[i])
        ELSE IF j # 0 THEN ModelOfLine(lines[j])
        ELSE Unknown

\* A mutant of getHostCPUInfo: the "CPU(s)" line is preferred to the count of
\* the processor lines
getHostCPUInfoListedFirst(F, os) ==
    LET lines == readHostFile(F, "/proc/cpuinfo", CpuInfoFallback(os)).v
        processors == CountWhere(lines, IsProcessorLine)
        i == FirstIndex(lines, IsCpuCountLine)
        listed == IF i # 0 /\ FirstNumber(lines[i]) >= 0 THEN FirstNumber(lines[i]) ELSE 0
    IN  IF Len(lines) > 0
        THEN [ model |-> ModelOf(lines),
               count |-> OrOne(IF listed # 0 THEN listed
                               ELSE IF processors # 0 THEN processors ELSE os.cpus) ]
        ELSE [ model |-> IF os.cpus > 0 THEN <<W("container-cpu")>> ELSE Unknown,
               count |-> os.cpus ]

\* getHostCPUInfo.  The model: see ModelOf.  The count: the number of
\* processor lines; when there is none the number on a "CPU(s)" line; when that
\* is 0 too os.cpus().length; and 1 for 0.  With no text at all (every tier
\* failed and the container reports no core) cpus[0]?.model || "Unknown" and
\* os.cpus().length as it is.
getHostCPUInfo(F, os) ==
    LET lines == readHostFile(F, "/proc/cpuinfo", CpuInfoFallback(os)).v
        processors == CountWhere(lines, IsProcessorLine)
        i == FirstIndex(lines, IsCpuCountLine)
        listed == IF i # 0 /\ FirstNumber(lines[i]) >= 0 THEN FirstNumber(lines[i]) ELSE 0
    IN  IF Len(lines) > 0
        THEN [ model |-> ModelOf(lines),
               count |-> OrOne(IF processors # 0 THEN processors
                               ELSE IF listed # 0 THEN listed ELSE os.cpus) ]
        ELSE [ model |-> IF os.cpus > 0 THEN <<W("container-cpu")>> ELSE Unknown,
               count |-> os.cpus ]

\* split(/\s+/) of a trimmed text: the tokens of all its lines
RECURSIVE Tokens(_)
Tokens(t) == IF Len(t) = 0 THEN <<>> ELSE Head(t) \o Tokens(Tail(t))

\* parseFloat(part) || 0, for a part that may be missing (undefined).  Load
\* averages are kept in hundredths: "0.50" is N(50).
FloatOrZero(parts, i) == IF i <= Len(parts) /\ IsNum(parts[i]) THEN parts[i].n ELSE 0

\* The fallback producer of getHostLoadAvg: os.loadavg().join(" ")
LoadAvgFallback(os) == << <<N(os.loadavg[1]), N(os.loadavg[2]), N(os.loadavg[3])>> >>

\* getHostLoadAvg, in hundredths
getHostLoadAvg(F, os) ==
    LET parts == Tokens(readHostFile(F, "/proc/loadavg", LoadAvgFallback(os)).v)
    IN  IF Len(parts) >= 3
        THEN <<FloatOrZero(parts, 1), FloatOrZero(parts, 2), FloatOrZero(parts, 3)>>
        ELSE os.loadavg

\* The first block of getHostCPUUsage: Ret(usage) when /proc/stat yields a
\* "cpu " line of five parts or more whose counters sum to more than 0
StatUsage(F) ==
    LET lines == readHostFile(F, "/proc/stat", NoText).v
        i == FirstIndex(lines, LAMBDA l : StartsWith(l, "cpu "))
        parts == lines[i]
        \* parts[0] is "cpu": parts[k] of the source is parts[k + 1] here
        user == FloatOrZero(parts, 2)
        nice == FloatOrZero(parts, 3)
        system == FloatOrZero(parts, 4)
        idle == FloatOrZero(parts, 5)
        iowait == FloatOrZero(parts, 6)
        irq == FloatOrZero(parts, 7)
        softirq == FloatOrZero(parts, 8)
        steal == FloatOrZero(parts, 9)
        totalIdle == idle + iowait
        totalNonIdle == user + nice + system + irq + softirq + steal
        total == totalIdle + totalNonIdle
    IN  IF Len(lines) > 0 /\ i # 0 /\ Len(parts) >= 5 /\ total > 0
        THEN Ret(Clamp(JsTimes(JsDivide(totalNonIdle, total), 100)))
        ELSE Falls

\* The last lines of getHostCPUUsage: (loadAvg[0] / cpuCount) * 100, at most 100
LoadUsage(F, os) ==
    MathMin(JsTimes(JsDivide(getHostLoadAvg(F, os)[1], 100 * getHostCPUInfo(F, os).count), 100),
            Hundred)

\* A mutant of getHostCPUUsage: the load average is all it looks at
getHostCPUUsageLoadOnly(F, os) == LoadUsage(F, os)

getHostCPUUsage(F, os) ==
    IF StatUsage(F).t = "ret" THEN StatUsage(F).v ELSE LoadUsage(F, os)

----------------------------------------------------------------------------
(* getHostHostname *)

\* A host name, character by character, as one token of a text
Name(chars) == [w |-> "name", n |-> 0, a |-> chars]

HexDigits ==
    {"0", "1", "2", "3", "4", "5", "6", "7", "8", "9",
     "a", "b", "c", "d", "e", "f", "A", "B", "C", "D", "E", "F"}

\* hostname.match(/^[0-9a-f]{12}$/i): the whole string is twelve hex digits
IsContainerId(t) ==
    /\ Len(t) = 1 /\ Len(t[1]) = 1 /\ t[1][1].w = "name"
    /\ Len(t[1][1].a) = 12
    /\ \A i \in 1..12 : t[1][1].a[i] \in HexDigits

\* hostname === "host"
IsHostLiteral(t) == t = << <<Name(<<"h", "o", "s", "t">>)>> >>

\* hostname && hostname.length > 0 && !hostname.match(...) && hostname !== "host"
HostnameAccepted(t) == Len(t) > 0 /\ ~IsContainerId(t) /\ ~IsHostLiteral(t)

\* A mutant of getHostHostname: what /etc/hostname holds is returned untested
getHostHostnameEtcUntested(F, os) ==
    LET kernel == readHostFile(F, "/proc/sys/kernel/hostname", NoText).v
        etc == readHostFile(F, "/etc/hostname", NoText).v
    IN  IF HostnameAccepted(kernel) THEN trim(kernel)
        ELSE IF Len(etc) > 0 THEN trim(etc)
        ELSE os.hostname

getHostHostname(F, os) ==
    LET kernel == readHostFile(F, "/proc/sys/kernel/hostname", NoText).v
        etc == readHostFile(F, "/etc/hostname", NoText).v
    IN  IF HostnameAccepted(kernel) THEN trim(kernel)
        ELSE IF HostnameAccepted(etc) THEN trim(etc)
        ELSE os.hostname

----------------------------------------------------------------------------
(* getHostDiskUsage, and the disk totals of GET *)

\* fs.statfsSync of a root path: it throws, or yields the three counters
StatfsThrows == [ok |-> FALSE, blocks |-> 0, bsize |-> 0, bavail |-> 0]
Statfs(blocks, bsize, bavail) == [ok |-> TRUE, blocks |-> blocks, bsize |-> bsize, bavail |-> bavail]
\* ... or never returns: the call is synchronous and takes no timeout
StatfsHangs == [ok |-> FALSE, blocks |-> 0, bsize |-> 0, bavail |-> 0, hangs |-> TRUE]

\* "/proc/1/root/" when /proc/1/root exists, "/" otherwise
RootPath(F) == IF F.proc1root THEN "/proc/1/root/" ELSE "/"

\* fs.statfsSync(rootPath) does not come back
statfsSyncBlocks(F, D) == "hangs" \in DOMAIN D.statfs[RootPath(F)]

\* "45%" as a token of the df output
Pct(k) == [w |-> "#%", n |-> k, a |-> <<>>]

\* The inner try block on statfsSync: the clamped (used / total) * 100, or the
\* exception caught
StatfsUsage(F, D) ==
    LET stats == D.statfs[RootPath(F)]
        total == stats.blocks * stats.bsize
        free == stats.bavail * stats.bsize
        used == total - free
    IN  IF ~stats.ok THEN Falls
        ELSE Ret(Clamp(JsTimes(JsDivide(used, total), 100)))

\* A command that never exits by itself
Hangs == [t |-> "hang", v |-> NoText]

\* { timeout: 2000 } of the execSync of df, in milliseconds
DfTimeoutMs == 2000

\* execSync(command, { timeout }): a command still running when the timeout
\* expires is killed and the call throws
execSync(outcome, timeout) ==
    IF outcome.t = "hang" /\ timeout > 0 THEN [t |-> "throw", v |-> NoText] ELSE outcome

\* The inner try block on "df -h /": the clamped number of the fifth column of
\* the second line, when the command succeeds and the column holds a number
DfUsage(D) ==
    LET lines == trim(D.df.v)
        parts == lines[2]
    IN  IF execSync(D.df, DfTimeoutMs).t # "ret" THEN Falls
        ELSE IF Len(lines) >= 2 /\ Len(parts) >= 5 /\ parts[5].w \in {"#", "#%"}
        THEN Ret(Clamp(Num(parts[5].n, 1)))
        ELSE Falls

\* A mutant of getHostDiskUsage: the exception of statfsSync leaves the function
getHostDiskUsageUncaught(F, D) ==
    IF ~D.statfs[RootPath(F)].ok THEN Thrown
    ELSE StatfsUsage(F, D).v

getHostDiskUsage(F, D) ==
    IF StatfsUsage(F, D).t = "ret" THEN StatfsUsage(F, D).v
    ELSE IF DfUsage(D).t = "ret" THEN DfUsage(D).v
    ELSE Zero

\* getHostDiskUsage never returns: statfsSync does not come back, or it threw
\* and the execSync of df does not come back
getHostDiskUsageBlocks(F, D) ==
    \/ statfsSyncBlocks(F, D)
    \/ StatfsUsage(F, D).t # "ret" /\ execSync(D.df, DfTimeoutMs).t = "hang"

\* The commands getHostDiskUsage hands to execSync, in order
diskExecSyncCalls(F, D) ==
    IF StatfsUsage(F, D).t = "ret" THEN <<>> ELSE <<"df -h / 2>/dev/null">>

\* A mutant of DiskTotals: the free bytes are not taken off the total
DiskTotalsUsedIsTotal(F, D) ==
    LET stats == D.statfs[RootPath(F)]
    IN  IF stats.ok
        THEN [ total |-> stats.blocks * stats.bsize,
               free  |-> stats.bavail * stats.bsize,
               used  |-> stats.blocks * stats.bsize ]
        ELSE [ total |-> 0, free |-> 0, used |-> 0 ]

\* The disk totals GET computes with a statfsSync of its own; 0 when it throws
DiskTotals(F, D) ==
    LET stats == D.statfs[RootPath(F)]
    IN  IF stats.ok
        THEN [ total |-> stats.blocks * stats.bsize,
               free  |-> stats.bavail * stats.bsize,
               used  |-> stats.blocks * stats.bsize - stats.bavail * stats.bsize ]
        ELSE [ total |-> 0, free |-> 0, used |-> 0 ]

----------------------------------------------------------------------------
(* execInHostNamespace *)

Null == [t |-> "null", v |-> NoText]

\* A mutant of execInHostNamespace: the failure of the command is not caught
execInHostNamespaceUncaught(X, command) ==
    IF ~X.proc1 THEN Null
    ELSE IF ~X.nsenter THEN Null
    ELSE IF X.run[command].t # "ret" THEN [t |-> "throw", v |-> NoText]
    ELSE Ret(trim(X.run[command].v))

\* execInHostNamespace(command): null unless /proc/1 exists, `which nsenter`
\* succeeds and the command itself exits with 0 in time; else its trimmed output
execInHostNamespace(X, command) ==
    IF ~X.proc1 THEN Null
    ELSE IF ~X.nsenter THEN Null
    ELSE IF X.run[command].t # "ret" THEN Null
    ELSE Ret(trim(X.run[command].v))

\* The commands execInHostNamespace hands to execSync, in order: nothing
\* without /proc/1; "which nsenter"; and the command under nsenter only when
\* "which nsenter" succeeded
execSyncCalls(X, command) ==
    IF ~X.proc1 THEN <<>>
    ELSE IF ~X.nsenter THEN <<"which nsenter">>
    ELSE <<"which nsenter", command>>

----------------------------------------------------------------------------
(* getHostIP *)

\* "a.b.c.d"; "a.b.c.d/len" (an address with a suffix); the hexadecimal field
\* "AABBCCDD" as its four bytes in the order written
Ip(a, b, c, d)    == [w |-> "ip",  n |-> 0, a |-> <<a, b, c, d>>]
IpSfx(a, b, c, d) == [w |-> "ip/", n |-> 0, a |-> <<a, b, c, d>>]
Hex(a, b, c, d)   == [w |-> "hex", n |-> 0, a |-> <<a, b, c, d>>]

\* token.match(/^\d{1,3}\.\d{1,3}\.\d{1,3}\.\d{1,3}$/)
IsDottedQuad(t) == t.w = "ip"
\* a match of /(\d{1,3}\.\d{1,3}\.\d{1,3}\.\d{1,3})/ inside the token
HoldsDottedQuad(t) == t.w \in {"ip", "ip/"}

\* firstOctet === 172 && secondOctet >= 16 && secondOctet <= 31
isDockerIP(a) == a[1] = 172 /\ a[2] >= 16 /\ a[2] <= 31
\* ip.startsWith("192.168.") || ip.startsWith("10.")
IsPrivate(a) == (a[1] = 192 /\ a[2] = 168) \/ a[1] = 10

Address(a) == [k |-> "ip", a |-> a]
NonDisponible == [k |-> "none", a |-> <<>>]

\* A mutant of PreferPrivate: the first of the list, private or not
PreferFirst(list) == list[1]

\* list.find(private) when there is one, else list[0]
PreferPrivate(list) ==
    LET i == FirstIndex(list, IsPrivate)
    IN  IF i # 0 THEN list[i] ELSE list[1]

\* The elements of a sequence that satisfy P, in order
Filter(s, P(_)) == SelectSeq(s, P)

\* The sequence without the later copies of an element (!list.includes(ip))
RECURSIVE Dedupe(_)
Dedupe(s) ==
    IF Len(s) = 0 THEN <<>>
    ELSE LET front == Dedupe(SubSeq(s, 1, Len(s) - 1))
             last == s[Len(s)]
         IN  IF \E i \in 1..Len(front) : front[i] = last THEN front ELSE front \o <<last>>

\* The addresses of tokens
Addrs(tokens) == [i \in 1..Len(tokens) |-> tokens[i].a]

\* Method 0: hostname -i through nsenter.  Rejected: no output, the output
\* "127.0.0.1", an output holding "::1", a first word that is no dotted quad,
\* and a Docker address.
Strategy1(e) ==
    LET hostnameIP == execInHostNamespace(e.X, "hostname -i")
        words == Tokens(hostnameIP.v)
        firstIP == words[1]
    IN  IF /\ hostnameIP.t = "ret"
           /\ Len(words) > 0
           /\ words # <<Ip(127, 0, 0, 1)>>
           /\ \A i \in 1..Len(words) : words[i].w # "::1"
           /\ IsDottedQuad(firstIP)
           /\ ~isDockerIP(firstIP.a)
        THEN Ret(firstIP.a)
        ELSE Falls

\* Method 0.1: ip -4 addr show through nsenter.  The first "inet <address>" of
\* the output; rejected when it is "127.0.0.1" or a Docker address.
Strategy2(e) ==
    LET ipOutput == execInHostNamespace(e.X, "ip addr")
        words == Tokens(ipOutput.v)
        i == FirstIndex([j \in 1..(Len(words) - 1) |-> j],
                        LAMBDA j : words[j].w = "inet" /\ HoldsDottedQuad(words[j + 1]))
        found == words[i + 1].a
    IN  IF /\ ipOutput.t = "ret"
           /\ Len(words) > 0
           /\ i # 0
           /\ found # <<127, 0, 0, 1>>
           /\ ~isDockerIP(found)
        THEN Ret(found)
        ELSE Falls

\* Method 0.5: /sys/class/net is listed and each MAC read and logged; no
\* address is taken from it
Strategy3(e) == Falls

\* The test of Method 1 on one match of the dotted-quad pattern
FibTrieAccepts(a) ==
    /\ \A i \in 1..4 : a[i] >= 0 /\ a[i] <= 255
    /\ a[1] # 127
    /\ a # <<0, 0, 0, 0>> /\ a # <<255, 255, 255, 255>>
    /\ ~isDockerIP(a)

\* Method 1: every dotted quad of /proc/net/fib_trie that passes the test,
\* without repeats; a private one first
Strategy4(e) ==
    LET fibTrie == readHostFile(e.F, "/proc/net/fib_trie", NoText).v
        localIPs == Dedupe(Filter(Addrs(Filter(Tokens(fibTrie), HoldsDottedQuad)), FibTrieAccepts))
    IN  IF Len(fibTrie) > 0 /\ Len(localIPs) > 0
        THEN Ret(PreferPrivate(localIPs))
        ELSE Falls

\* The lines after the first (the loops start at index 1, past the header)
Body(lines) == IF Len(lines) <= 1 THEN <<>> ELSE SubSeq(lines, 2, Len(lines))

\* Method 2, step 1: the interface of the first line after the header that has
\* three fields or more, is not "lo" and has destination 00000000; "" for null
MainInterface(route) ==
    LET rows == Body(route)
        i == FirstIndex(rows, LAMBDA r : /\ Len(r) >= 3
                                        /\ r[1].w # "lo"
                                        /\ r[2] = Hex(0, 0, 0, 0))
    IN  IF i = 0 THEN "" ELSE rows[i][1].w

\* A mutant of ArpForInterface: the MAC of the row is not compared
ArpForInterfaceAnyMac(e, mainInterface) ==
    LET rows == Body(readHostFile(e.F, "/proc/net/arp", NoText).v)
        i == FirstIndex(rows, LAMBDA r : /\ Len(r) >= 6
                                        /\ r[6].w = mainInterface
                                        /\ IsDottedQuad(r[1])
                                        /\ r[1].a # <<127, 0, 0, 1>>
                                        /\ r[1].a # <<0, 0, 0, 0>>
                                        /\ ~isDockerIP(r[1].a))
    IN  IF i = 0 THEN Falls ELSE Ret(rows[i][1].a)

\* Method 2.1 then 2.2: the first row of /proc/net/arp for the interface whose
\* address is a dotted quad, whose MAC is the interface's own when that is
\* known, and which is not "127.0.0.1", "0.0.0.0" or a Docker address
ArpForInterface(e, mainInterface) ==
    LET interfaceMAC == e.mac[mainInterface]
        rows == Body(readHostFile(e.F, "/proc/net/arp", NoText).v)
        i == FirstIndex(rows, LAMBDA r : /\ Len(r) >= 6
                                        /\ r[6].w = mainInterface
                                        /\ IsDottedQuad(r[1])
                                        /\ ~(interfaceMAC # "" /\ r[4].w # interfaceMAC)
                                        /\ r[1].a # <<127, 0, 0, 1>>
                                        /\ r[1].a # <<0, 0, 0, 0>>
                                        /\ ~isDockerIP(r[1].a))
    IN  IF i = 0 THEN Falls ELSE Ret(rows[i][1].a)

Min(a, b) == IF a <= b THEN a ELSE b

\* A mutant of RouteColumns: the mask column is read as well
RouteColumnsWithMask(parts) == 2..(Min(Len(parts), 8) - 1)

\* The columns of a routing row Method 2.3 reads, numbered from 0 as in the
\* source: col = 2 .. min(parts.length, 8) - 1, without column 7
RouteColumns(parts) == { col \in 2..(Min(Len(parts), 8) - 1) : col # 7 }

\* The address a hexadecimal field decodes to: its bytes in reverse
HexToIp(t) == <<t.a[4], t.a[3], t.a[2], t.a[1]>>

\* The test of Method 2.3 on a decoded field
RouteAccepts(a) ==
    /\ a[1] # 255                      \* isSubnetMask: ip.startsWith("255.")
    /\ a # <<0, 0, 0, 0>> /\ a # <<127, 0, 0, 1>>
    /\ ~isDockerIP(a)

\* The decoded fields of one row, in column order
RowCandidates(parts) ==
    LET cells == [i \in 1..Len(parts) |-> [col |-> i - 1, t |-> parts[i]]]
        read == SelectSeq(cells, LAMBDA c : /\ c.col \in RouteColumns(parts)
                                            /\ c.t.w = "hex"
                                            /\ c.t # Hex(0, 0, 0, 0))
    IN  [i \in 1..Len(read) |-> HexToIp(read[i].t)]

RECURSIVE RouteCandidates(_, _)
RouteCandidates(rows, mainInterface) ==
    IF Len(rows) = 0 THEN <<>>
    ELSE (IF Len(Head(rows)) >= 3 /\ Head(rows)[1].w = mainInterface
          THEN RowCandidates(Head(rows)) ELSE <<>>)
         \o RouteCandidates(Tail(rows), mainInterface)

\* Method 2.3: the decoded fields of the interface's rows that pass the test,
\* without repeats; a private one first
RouteForInterface(route, mainInterface) ==
    LET interfaceIPs == Dedupe(Filter(RouteCandidates(Body(route), mainInterface), RouteAccepts))
    IN  IF Len(interfaceIPs) > 0 THEN Ret(PreferPrivate(interfaceIPs)) ELSE Falls

\* Method 2.3 (second): the first dotted quad on a fib_trie line naming the
\* interface that is not 127.*, "0.0.0.0" or a Docker address
FibTrieForInterface(e, mainInterface) ==
    LET fibTrie == readHostFile(e.F, "/proc/net/fib_trie", NoText).v
        ifaceLines == SelectSeq(fibTrie, LAMBDA l : \E i \in 1..Len(l) : l[i].w = mainInterface)
        found == Filter(Addrs(Filter(Tokens(ifaceLines), HoldsDottedQuad)),
                        LAMBDA a : a # <<0, 0, 0, 0>> /\ ~isDockerIP(a) /\ a[1] # 127)
    IN  IF Len(fibTrie) > 0 /\ Len(found) > 0 THEN Ret(found[1]) ELSE Falls

\* Method 2: /proc/net/route names the interface of the default route; its
\* address is looked for in the ARP table, the routing table and fib_trie
Strategy5(e) ==
    LET route == readHostFile(e.F, "/proc/net/route", NoText).v
        mainInterface == MainInterface(route)
    IN  IF Len(route) = 0 \/ mainInterface = "" THEN Falls
        ELSE IF ArpForInterface(e, mainInterface).t = "ret" THEN ArpForInterface(e, mainInterface)
        ELSE IF RouteForInterface(route, mainInterface).t = "ret" THEN RouteForInterface(route, mainInterface)
        ELSE FibTrieForInterface(e, mainInterface)

\* The test of Method 3 on the first field of an ARP row
ArpAccepts(r) ==
    /\ Len(r) >= 1
    /\ IsDottedQuad(r[1])
    /\ r[1].a # <<127, 0, 0, 1>> /\ r[1].a # <<0, 0, 0, 0>>
    /\ ~isDockerIP(r[1].a)

\* Method 3: the addresses of /proc/net/arp that pass the test; a private one
\* first
Strategy6(e) ==
    LET arp == readHostFile(e.F, "/proc/net/arp", NoText).v
        rows == Filter(Body(arp), ArpAccepts)
        arpIPs == [i \in 1..Len(rows) |-> rows[i][1].a]
    IN  IF Len(arp) > 0 /\ Len(arpIPs) > 0 THEN Ret(PreferPrivate(arpIPs)) ELSE Falls

\* A mutant of ContainerAddress: the bridge range is not filtered
ContainerAddressWithBridge(e) ==
    LET i == FirstIndex(e.interfaces, LAMBDA addr : /\ addr.family = "IPv4"
                                                     /\ ~addr.internal)
    IN  IF i = 0 THEN NonDisponible ELSE Address(e.interfaces[i].address)

\* The fallback: the first address of os.networkInterfaces() that is IPv4, not
\* internal, not a Docker address and not "127.0.0.1"; else the sentinel
ContainerAddress(e) ==
    LET i == FirstIndex(e.interfaces, LAMBDA addr : /\ addr.family = "IPv4"
                                                     /\ ~addr.internal
                                                     /\ ~isDockerIP(addr.address)
                                                     /\ addr.address # <<127, 0, 0, 1>>)
    IN  IF i = 0 THEN NonDisponible ELSE Address(e.interfaces[i].address)

Strategy(k, e) ==
    CASE k = 1 -> Strategy1(e)
      [] k = 2 -> Strategy2(e)
      [] k = 3 -> Strategy3(e)
      [] k = 4 -> Strategy4(e)
      [] k = 5 -> Strategy5(e)
      [] k = 6 -> Strategy6(e)

\* The order in which getHostIP runs its methods
StrategyOrder == <<1, 2, 3, 4, 5, 6>>

RECURSIVE getHostIPFrom(_, _)
getHostIPFrom(e, i) ==
    IF i > Len(StrategyOrder) THEN ContainerAddress(e)
    ELSE IF Strategy(StrategyOrder[i], e).t = "ret" THEN Address(Strategy(StrategyOrder[i], e).v)
    ELSE getHostIPFrom(e, i + 1)

\* A mutant of getHostIP: a method that yields nothing ends the cascade, as
\* the outer catch would
getHostIPStopsAtAbsent(e) ==
    IF Strategy(StrategyOrder[1], e).t = "ret" THEN Address(Strategy(StrategyOrder[1], e).v)
    ELSE ContainerAddress(e)

getHostIP(e) == getHostIPFrom(e, 1)

----------------------------------------------------------------------------
(* GET *)

\* Requests served and changes of the environment in one run of the model
MaxRequests == 2
MaxEnvChanges == 1

\* The files GET reads through readHostFile
GetPaths == {"/proc/meminfo", "/proc/cpuinfo", "/proc/stat", "/proc/loadavg"}

\* What the container sees of the environment.  /proc/1/root<path> and
\* /host<path> are the host's file when the root, or the mount of /proc, is
\* there; <path> is the container's own file.
View(E) ==
    [ proc1root |-> E.proc1root,
      hostProc  |-> E.hostProc,
      hostSys   |-> E.hostSys,
      hostEtc   |-> E.hostEtc,
      at        |-> [ proc1 |-> [p \in GetPaths |-> IF E.proc1root THEN E.host[p] ELSE Missing],
                      host  |-> [p \in GetPaths |-> IF E.hostProc THEN E.host[p] ELSE Missing],
                      cont  |-> E.cont ] ]

\* A mutant of Snapshot: the body also holds the address and the system
SnapshotWithNetworkAndOs(mem, info, usage, disk, totals, mounted) ==
    [ memory |-> MemorySnapshot(mem),
      cpu    |-> [ count |-> info.count, usage |-> usage ],
      disk   |-> [ total |-> totals.total, used |-> totals.used,
                   free |-> totals.free, usage |-> disk ],
      network |-> NonDisponible,
      os      |-> "Linux",
      hostMounted |-> mounted ]

\* The body GET hands to NextResponse.json
Snapshot(mem, info, usage, disk, totals, mounted) ==
    [ memory |-> MemorySnapshot(mem),
      cpu    |-> [ count |-> info.count, usage |-> usage ],
      disk   |-> [ total |-> totals.total, used |-> totals.used,
                   free |-> totals.free, usage |-> disk ],
      hostMounted |-> mounted ]

NoResponse == [status |-> 0]

\* const hostMounted = isHostMounted()
GetStart ==
    /\ pc = "idle"
    /\ served < MaxRequests
    /\ hostMounted' = isHostMounted(View(env))
    /\ pc' = "memory"
    /\ UNCHANGED <<env, memory, cpuInfo, cpuUsage, diskUsage, response, served>>

\* const memory = getHostMemory()
GetMemory ==
    /\ pc = "memory"
    /\ memory' = getHostMemory(View(env), env.os)
    /\ pc' = "cpuInfo"
    /\ UNCHANGED <<env, hostMounted, cpuInfo, cpuUsage, diskUsage, response, served>>

\* const cpuInfo = getHostCPUInfo()
GetCpuInfo ==
    /\ pc = "cpuInfo"
    /\ cpuInfo' = getHostCPUInfo(View(env), env.os)
    /\ pc' = "cpuUsage"
    /\ UNCHANGED <<env, hostMounted, memory, cpuUsage, diskUsage, response, served>>

\* const cpuUsage = getHostCPUUsage()
GetCpuUsage ==
    /\ pc = "cpuUsage"
    /\ cpuUsage' = getHostCPUUsage(View(env), env.os)
    /\ pc' = "diskUsage"
    /\ UNCHANGED <<env, hostMounted, memory, cpuInfo, diskUsage, response, served>>

\* const diskUsage = getHostDiskUsage()
GetDiskUsage ==
    /\ pc = "diskUsage"
    /\ ~getHostDiskUsageBlocks(View(env), env.disk)
    /\ diskUsage' = getHostDiskUsage(View(env), env.disk)
    /\ pc' = "respond"
    /\ UNCHANGED <<env, hostMounted, memory, cpuInfo, cpuUsage, response, served>>

\* A mutant of GetRespond: the mounts are looked at again for the response
GetRespondRechecksMounts ==
    /\ pc = "respond"
    /\ response' = [ status |-> 200,
                     body |-> Snapshot(memory, cpuInfo, cpuUsage, diskUsage,
                                       DiskTotals(View(env), env.disk), isHostMounted(View(env))) ]
    /\ pc' = "done"
    /\ served' = served + 1
    /\ UNCHANGED <<env, hostMounted, memory, cpuInfo, cpuUsage, diskUsage>>

\* The second statfsSync and return NextResponse.json({...})
GetRespond ==
    /\ pc = "respond"
    /\ ~statfsSyncBlocks(View(env), env.disk)
    /\ response' = [ status |-> 200,
                     body |-> Snapshot(memory, cpuInfo, cpuUsage, diskUsage,
                                       DiskTotals(View(env), env.disk), hostMounted) ]
    /\ pc' = "done"
    /\ served' = served + 1
    /\ UNCHANGED <<env, hostMounted, memory, cpuInfo, cpuUsage, diskUsage>>

\* A mutant of GetCatch: what was assembled so far is returned
GetCatchPartial ==
    /\ pc = env.fault
    /\ response' = [ status |-> 200, body |-> [ memory |-> MemorySnapshot(memory), hostMounted |-> hostMounted ] ]
    /\ pc' = "done"
    /\ served' = served + 1
    /\ UNCHANGED <<env, hostMounted, memory, cpuInfo, cpuUsage, diskUsage>>

\* catch (error): something raised in the step GET is at; the error object
\* goes out with status 500
GetCatch ==
    /\ pc = env.fault
    /\ response' = [ status |-> 500, body |-> [ error |-> "Erreur" ] ]
    /\ pc' = "done"
    /\ served' = served + 1
    /\ UNCHANGED <<env, hostMounted, memory, cpuInfo, cpuUsage, diskUsage>>

\* The next request: GET keeps nothing from the one before
GetAgain ==
    /\ pc = "done"
    /\ pc' = "idle"
    /\ hostMounted' = FALSE
    /\ memory' = [total |-> 0, free |-> 0, available |-> 0]
    /\ cpuInfo' = [count |-> 0]
    /\ cpuUsage' = Zero
    /\ diskUsage' = Zero
    /\ response' = NoResponse
    /\ UNCHANGED <<env, served>>

----------------------------------------------------------------------------
(* The environment of GET *)

Meminfo(total, free, available) ==
    << <<W("MemTotal:"), N(total), W("kB")>>,
       <<W("MemFree:"), N(free), W("kB")>>,
       <<W("MemAvailable:"), N(available), W("kB")>>,
       <<W("Cached:"), N(1), W("kB")>>,
       <<>> >>

\* A kernel before 3.14 writes no MemAvailable line
MeminfoOld(total, free) ==
    << <<W("MemTotal:"), N(total), W("kB")>>,
       <<W("MemFree:"), N(free), W("kB")>>,
       <<>> >>

Cpuinfo2 ==
    << <<W("processor"), W(":"), N(0)>>,
       <<W("model"), W("name"), W(":"), W("host-cpu")>>,
       <<>>,
       <<W("processor"), W(":"), N(1)>>,
       <<W("model"), W("name"), W(":"), W("host-cpu")>>,
       <<>> >>

\* No processor line: the count comes from the "CPU(s)" line
CpuinfoListed ==
    << <<W("Architecture:"), W("x86_64")>>,
       <<W("CPU(s):"), N(3)>>,
       <<>> >>

\* cpu  user nice system idle iowait irq softirq steal guest guest_nice
StatBusy ==
    << <<W("cpu"), N(2), N(0), N(1), N(4), N(1), N(0), N(0), N(0), N(0), N(0)>>,
       <<W("cpu0"), N(2), N(0), N(1), N(4), N(1), N(0), N(0), N(0), N(0), N(0)>>,
       <<W("intr"), N(7)>>,
       <<>> >>

\* A counter file whose aggregate line is missing
StatNoAggregate ==
    << <<W("cpu0"), N(2), N(0), N(1), N(4), N(1), N(0), N(0), N(0), N(0), N(0)>>,
       <<>> >>

\* "l1 l5 l15 running/total lastpid", the averages in hundredths
Loadavg(l1) == << <<N(l1), N(10), N(5), W("1/234"), N(5678)>>, <<>> >>

HostFiles ==
    { [p \in GetPaths |->
         CASE p = "/proc/meminfo" -> File(m)
           [] p = "/proc/cpuinfo" -> File(c)
           [] p = "/proc/stat"    -> File(st)
           [] p = "/proc/loadavg" -> File(Loadavg(250))] :
      m \in {Meminfo(4, 1, 2), MeminfoOld(1, 1), Meminfo(1, 1, 2)},
      c \in {Cpuinfo2, CpuinfoListed},
      st \in {StatBusy, StatNoAggregate} }

\* The container: its own /proc and what os reports.  Without a /proc of its
\* own os.cpus() is empty; the load average then comes from sysinfo(2).
Containers ==
    { [ files |-> [p \in GetPaths |->
                     CASE p = "/proc/meminfo" -> File(Meminfo(2, 1, 1))
                       [] p = "/proc/cpuinfo" -> File(<< <<W("processor"), W(":"), N(0)>>, <<>> >>)
                       [] p = "/proc/stat"    -> File(StatBusy)
                       [] p = "/proc/loadavg" -> File(Loadavg(50))],
        os |-> [cpus |-> 1, totalmem |-> 2 * KB, freemem |-> KB, loadavg |-> <<50, 10, 5>>] ],
      [ files |-> [p \in GetPaths |-> File(NoText)],
        os |-> [cpus |-> 2, totalmem |-> 3 * KB + 1, freemem |-> 2 * KB + 1, loadavg |-> <<300, 10, 5>>] ] }
    \cup
    { [ files |-> [p \in GetPaths |-> Missing],
        os |-> [cpus |-> 0, totalmem |-> 3 * KB + 1, freemem |-> 2 * KB + 1, loadavg |-> <<l, 10, 5>>] ] :
      l \in {0, 50} }

DfOutput(cell) ==
    << <<W("Filesystem"), W("Size"), W("Used"), W("Avail"), W("Use%"), W("Mounted"), W("on")>>,
       <<W("overlay"), W("59G"), W("25G"), W("32G"), cell, W("/")>>,
       <<>> >>

\* "df -h /": the command fails, or prints its table
DfResults == { [t |-> "throw", v |-> NoText], Ret(DfOutput(Pct(45))), Ret(DfOutput(W("-"))) }

\* statfs of the host's root and of the container's root
HostStatfs == { StatfsThrows, Statfs(0, 4, 0), Statfs(4, 2, 1) }
ContStatfs == { StatfsThrows, Statfs(2, 2, 2) }

\* The mounts of /host: none, /host/proc alone, all three
MountSets == { <<FALSE, FALSE, FALSE>>, <<TRUE, FALSE, FALSE>>, <<TRUE, TRUE, TRUE>> }

Environments ==
    { [ proc1root |-> r, hostProc |-> m[1], hostSys |-> m[2], hostEtc |-> m[3],
        host |-> h, cont |-> c.files, os |-> c.os,
        disk |-> [ statfs |-> [root \in {"/", "/proc/1/root/"} |->
                                 IF root = "/" THEN cs ELSE hs],
                   df |-> df ],
        fault |-> "none",
        changes |-> 0 ] :
      r \in BOOLEAN, m \in MountSets, h \in HostFiles, c \in Containers,
      hs \in HostStatfs, cs \in ContStatfs, df \in DfResults }

\* The steps of GET inside its try block at which something may raise
FaultSteps == {"memory", "cpuInfo", "cpuUsage", "diskUsage", "respond"}

\* Environments in which one step of GET may raise an exception nobody
\* expected: a host seen through /proc/1/root or not at all, one step
FaultyEnvironments ==
    { [E EXCEPT !.fault = s] :
      E \in { E \in Environments : /\ E.hostProc = E.hostEtc
                                   /\ E.host["/proc/meminfo"] = File(Meminfo(4, 1, 2))
                                   /\ E.host["/proc/cpuinfo"] = File(Cpuinfo2)
                                   /\ E.host["/proc/stat"] = File(StatBusy)
                                   /\ E.os.cpus = 1
                                   /\ E.disk.statfs["/proc/1/root/"] = Statfs(4, 2, 1)
                                   /\ E.disk.statfs["/"] = Statfs(2, 2, 2)
                                   /\ E.disk.df.t = "ret" /\ E.disk.df.v = DfOutput(Pct(45)) },
      s \in FaultSteps }

\* Blocks are written or freed on the root file systems
EnvDiskWrite ==
    /\ env.changes < MaxEnvChanges
    /\ \E hs \in HostStatfs, cs \in ContStatfs :
          /\ hs.ok = env.disk.statfs["/proc/1/root/"].ok
          /\ cs.ok = env.disk.statfs["/"].ok
          /\ <<hs, cs>> # <<env.disk.statfs["/proc/1/root/"], env.disk.statfs["/"]>>
          /\ env' = [env EXCEPT !.changes = @ + 1,
                                !.disk.statfs = [root \in {"/", "/proc/1/root/"} |->
                                                   IF root = "/" THEN cs ELSE hs]]
    /\ UNCHANGED <<pc, hostMounted, memory, cpuInfo, cpuUsage, diskUsage, response, served>>

\* /host is unmounted
EnvUnmountHost ==
    /\ env.changes < MaxEnvChanges
    /\ env.hostProc
    /\ env' = [env EXCEPT !.changes = @ + 1,
                          !.hostProc = FALSE, !.hostSys = FALSE, !.hostEtc = FALSE]
    /\ UNCHANGED <<pc, hostMounted, memory, cpuInfo, cpuUsage, diskUsage, response, served>>

\* The host's memory counters move
EnvMemoryMoves ==
    /\ env.changes < MaxEnvChanges
    /\ \E h \in HostFiles :
          /\ h # env.host
          /\ \A p \in GetPaths \ {"/proc/meminfo"} : h[p] = env.host[p]
          /\ env' = [env EXCEPT !.changes = @ + 1, !.host = h]
    /\ UNCHANGED <<pc, hostMounted, memory, cpuInfo, cpuUsage, diskUsage, response, served>>

InitGet ==
    /\ env \in Environments \cup FaultyEnvironments
    /\ pc = "idle"
    /\ hostMounted = FALSE
    /\ memory = [total |-> 0, free |-> 0, available |-> 0]
    /\ cpuInfo = [count |-> 0]
    /\ cpuUsage = Zero
    /\ diskUsage = Zero
    /\ response = NoResponse
    /\ served = 0

----------------------------------------------------------------------------
(* readHostFile on its own: one logical path, every state of its three     *)
(* copies, and the copies and mounts being taken away between calls.       *)

RdPath == "/proc/x"

\* What a copy of the file may be; the word names the tier it belongs to
RdFileStates(tier) ==
    { Missing, Dir, StatErr, ReadErr,
      File(NoText),                               \* ""
      File(<< <<>>, <<>> >>),                     \* " \n"
      File(<< <<W(tier)>> >>),                    \* "tier"
      File(<< <<W(tier)>>, <<>> >>),              \* "tier\n"
      File(<< <<>>, <<W(tier), N(1)>>, <<>> >>) } \* "\ntier 1\n"

RdFallbacks == { NoText, << <<W("fallback")>> >> }

RdFilesystems ==
    { F \in [ proc1root : BOOLEAN, hostProc : BOOLEAN, hostSys : BOOLEAN, hostEtc : BOOLEAN,
              at : { [t \in {"proc1", "host", "cont"} |-> [p \in {RdPath} |-> g[t]]] :
                     g \in [{"proc1", "host", "cont"} -> UNION { RdFileStates(t) : t \in {"proc1", "host", "cont"} }] } ] :
        /\ \A t \in {"proc1", "host", "cont"} : F.at[t][RdPath] \in RdFileStates(t)
        \* nothing exists under a root that does not exist
        /\ (~F.proc1root => F.at["proc1"][RdPath] = Missing)
        /\ (~F.hostProc  => F.at["host"][RdPath] = Missing) }

RdIdle == [t |-> "none", v |-> NoText, src |-> "none"]

RdInit ==
    /\ rd \in { [F |-> F, fallback |-> fb, phase |-> "ready", out |-> RdIdle,
                 prev |-> RdIdle, removed |-> "none"] :
                F \in RdFilesystems, fb \in RdFallbacks }

\* One call of readHostFile(RdPath, () => fallback)
RdCall ==
    /\ rd.phase = "ready"
    /\ rd' = [rd EXCEPT !.phase = "returned",
                        !.out = readHostFile(rd.F, RdPath, rd.fallback),
                        !.prev = rd.out]

\* The copy of the file in one tier is taken away
RdRemove(tier) ==
    /\ rd.phase = "returned"
    /\ rd.F.at[tier][RdPath] # Missing
    /\ rd' = [rd EXCEPT !.phase = "ready", !.removed = tier,
                        !.F.at[tier][RdPath] = Missing]

\* /proc/1/root goes away (the container no longer shares the host's pids)
RdLoseProc1Root ==
    /\ rd.phase = "returned"
    /\ rd.F.proc1root
    /\ rd' = [rd EXCEPT !.phase = "ready", !.removed = "proc1",
                        !.F.proc1root = FALSE,
                        !.F.at["proc1"][RdPath] = Missing]

\* /host/sys is unmounted: isHostMounted turns false, the file stays
RdUnmountSys ==
    /\ rd.phase = "returned"
    /\ rd.F.hostSys
    /\ rd' = [rd EXCEPT !.phase = "ready", !.removed = "host",
                        !.F.hostSys = FALSE]

----------------------------------------------------------------------------
(* getHostIP on its own: the outputs of the two commands, the three files  *)
(* of /proc/net, the MAC of the interface and the container's interfaces,  *)
(* with commands starting to fail and files being removed between calls.   *)

NetPaths == {"/proc/net/fib_trie", "/proc/net/route", "/proc/net/arp"}

CmdFails == [t |-> "throw", v |-> NoText]
CmdTimesOut == [t |-> "timeout", v |-> NoText]

\* What "hostname -i" prints in the host's namespaces
HostnameOutputs ==
    { CmdFails, CmdTimesOut,
      Ret(NoText),
      Ret(<< <<Ip(127, 0, 0, 1)>>, <<>> >>),
      Ret(<< <<Ip(127, 0, 1, 1)>>, <<>> >>),
      Ret(<< <<Ip(192, 168, 0, 19), Ip(172, 17, 0, 1)>>, <<>> >>),
      Ret(<< <<Ip(172, 17, 0, 1)>>, <<>> >>),
      Ret(<< <<Ip(192, 168, 0, 300)>>, <<>> >>) }

\* What the "ip -4 addr show | grep | head -1" pipeline prints
IpAddrOutputs ==
    { CmdFails,
      Ret(<< <<W("inet"), IpSfx(10, 0, 0, 5), W("brd"), Ip(10, 0, 0, 255),
               W("scope"), W("global"), W("eth0")>>, <<>> >>),
      Ret(<< <<W("inet"), IpSfx(172, 17, 0, 1), W("brd"), Ip(172, 17, 255, 255),
               W("scope"), W("global"), W("docker0")>>, <<>> >>) }

Executors ==
    { [proc1 |-> p[1], nsenter |-> p[2],
       run |-> [c \in {"hostname -i", "ip addr"} |-> IF c = "hostname -i" THEN h ELSE a]] :
      p \in {<<FALSE, TRUE>>, <<TRUE, FALSE>>, <<TRUE, TRUE>>},
      h \in HostnameOutputs, a \in IpAddrOutputs }

FibTries ==
    { Missing, ReadErr,
      File(<< <<W("Local:")>>,
              <<W("|--"), Ip(127, 0, 0, 1)>>,
              <<W("/32"), W("host"), W("LOCAL")>>,
              <<W("|--"), Ip(172, 17, 0, 1)>>,
              <<W("/32"), W("host"), W("LOCAL")>> >>),
      File(<< <<W("Main:")>>,
              <<W("|--"), Ip(8, 8, 4, 4)>>,
              <<W("/32"), W("host"), W("LOCAL")>>,
              <<W("|--"), Ip(192, 168, 0, 19), W("eth0")>>,
              <<W("|--"), Ip(8, 8, 4, 4)>> >>),
      File(<< <<W("Main:")>>,
              <<W("+--"), IpSfx(300, 1, 2, 3), N(2), N(0), N(2)>>,
              <<W("|--"), Ip(127, 0, 0, 1)>>,
              <<W("|--"), Ip(8, 8, 4, 4)>>,
              <<W("|--"), Ip(203, 0, 113, 7)>> >>) }

RouteHeader ==
    <<W("Iface"), W("Destination"), W("Gateway"), W("Flags"), W("RefCnt"), W("Use"),
      W("Metric"), W("Mask"), W("MTU"), W("Window"), W("IRTT")>>

\* eth0 00000000 0100A8C0 0003 0 0 0 00000000 0 0 0      (the default route)
\* eth0 0000A8C0 00000000 0001 0 0 0 00FFFFFF 0 0 0      (192.168.0.0/24)
Routes ==
    { Missing,
      File(<< RouteHeader,
              <<W("lo"), Hex(0, 0, 0, 0), Hex(0, 0, 0, 0), N(1), N(0), N(0), N(0),
                Hex(0, 0, 0, 255), N(0), N(0), N(0)>> >>),
      File(<< RouteHeader,
              <<W("eth0"), Hex(0, 0, 0, 0), Hex(1, 0, 168, 192), N(3), N(0), N(0), N(0),
                Hex(0, 0, 0, 0), N(0), N(0), N(0)>>,
              <<W("eth0"), Hex(0, 0, 168, 192), Hex(0, 0, 0, 0), N(1), N(0), N(0), N(0),
                Hex(0, 255, 255, 255), N(0), N(0), N(0)>> >>),
      \* eth0 00000000 017100CB ... 00000000      (default, by 203.0.113.1)
      \* eth0 00000000 0108080A ... 00000080      (0.0.0.0/1, by 10.8.8.1)
      \* eth0 0000A8C0 00FFFFFF ... 00FFFFFF      (a mask in the gateway field)
      File(<< RouteHeader,
              <<W("eth0"), Hex(0, 0, 0, 0), Hex(1, 113, 0, 203), N(3), N(0), N(0), N(0),
                Hex(0, 0, 0, 0), N(0), N(0), N(0)>>,
              <<W("eth0"), Hex(0, 0, 0, 0), Hex(1, 8, 8, 10), N(3), N(0), N(0), N(0),
                Hex(0, 0, 0, 128), N(0), N(0), N(0)>>,
              <<W("eth0"), Hex(0, 0, 168, 192), Hex(0, 255, 255, 255), N(1), N(0), N(0), N(0),
                Hex(0, 255, 255, 255), N(0), N(0), N(0)>> >>),
      \* eth0 00000000 00000000 ... 00000080      (0.0.0.0/1, on link)
      File(<< RouteHeader,
              <<W("eth0"), Hex(0, 0, 0, 0), Hex(0, 0, 0, 0), N(1), N(0), N(0), N(0),
                Hex(0, 0, 0, 128), N(0), N(0), N(0)>> >>) }

ArpHeader ==
    <<W("IP"), W("address"), W("HW"), W("type"), W("Flags"), W("HW"), W("address"),
      W("Mask"), W("Device")>>

\* 192.168.0.19     0x1         0x2         aa:bb:cc:dd:ee:ff     *        eth0
ArpRow(a, hw, device) == <<a, W("0x1"), W("0x2"), W(hw), W("*"), W(device)>>

Arps ==
    { Missing,
      File(<< ArpHeader,
              ArpRow(Ip(172, 17, 0, 2), "02:42", "docker0"),
              ArpRow(Ip(8, 8, 8, 8), "11:22", "eth0"),
              ArpRow(Ip(192, 168, 0, 19), "aa:bb", "eth0") >>),
      File(<< ArpHeader,
              ArpRow(Ip(192, 168, 0, 19), "11:22", "eth0") >>),
      File(<< ArpHeader,
              ArpRow(Ip(255, 255, 255, 255), "ff:ff", "eth1") >>) }

\* /sys/class/net/<interface>/address: "" when it cannot be read
Macs == { [i \in {"eth0"} |-> mac] : mac \in {"", "aa:bb"} }

\* os.networkInterfaces(), flattened in the order of its keys
InterfaceLists ==
    { <<>>,
      << [address |-> <<127, 0, 0, 1>>, family |-> "IPv4", internal |-> TRUE],
         [address |-> <<172, 17, 0, 2>>, family |-> "IPv4", internal |-> FALSE],
         [address |-> <<10, 0, 0, 7>>,   family |-> "IPv4", internal |-> FALSE] >>,
      << [address |-> <<127, 0, 0, 1>>, family |-> "IPv4", internal |-> TRUE],
         [address |-> <<0, 0, 0, 1>>,   family |-> "IPv6", internal |-> TRUE],
         [address |-> <<172, 18, 0, 3>>, family |-> "IPv4", internal |-> FALSE],
         [address |-> <<254, 128, 0, 2>>, family |-> "IPv6", internal |-> FALSE] >> }

\* The files of /proc/net as the container sees them
NetView(files) ==
    [ proc1root |-> FALSE, hostProc |-> FALSE, hostSys |-> FALSE, hostEtc |-> FALSE,
      at |-> [ proc1 |-> [p \in NetPaths |-> Missing],
               host  |-> [p \in NetPaths |-> Missing],
               cont  |-> files ] ]

IpEnvironments ==
    { [ X |-> x,
        F |-> NetView([p \in NetPaths |->
                         CASE p = "/proc/net/fib_trie" -> fib
                           [] p = "/proc/net/route"    -> route
                           [] p = "/proc/net/arp"      -> arp]),
        mac |-> mac,
        interfaces |-> ifs ] :
      x \in Executors, fib \in FibTries, route \in Routes, arp \in Arps,
      mac \in Macs, ifs \in InterfaceLists }

IpIdle == [k |-> "idle", a |-> <<>>]

IpInit ==
    ip \in { [e |-> e, phase |-> "ready", out |-> IpIdle, prev |-> IpIdle, disabled |-> 0] :
             e \in IpEnvironments }

\* One call of getHostIP()
IpCall ==
    /\ ip.phase = "ready"
    /\ ip' = [ip EXCEPT !.phase = "returned", !.out = getHostIP(ip.e), !.prev = ip.out]

\* The command of method 0 (k = 1) or 0.1 (k = 2) starts to fail
IpCommandFails(k) ==
    /\ ip.phase = "returned"
    /\ k \in {1, 2}
    /\ LET c == IF k = 1 THEN "hostname -i" ELSE "ip addr"
       IN  /\ ip.e.X.run[c] # CmdFails
           /\ ip' = [ip EXCEPT !.phase = "ready", !.disabled = k, !.e.X.run[c] = CmdFails]

\* The file of method 1 (k = 4), 2 (k = 5) or 3 (k = 6) is removed
IpFileRemoved(k) ==
    /\ ip.phase = "returned"
    /\ k \in {4, 5, 6}
    /\ LET p == CASE k = 4 -> "/proc/net/fib_trie"
                  [] k = 5 -> "/proc/net/route"
                  [] k = 6 -> "/proc/net/arp"
       IN  /\ ip.e.F.at["cont"][p] # Missing
           /\ ip' = [ip EXCEPT !.phase = "ready", !.disabled = k, !.e.F.at["cont"][p] = Missing]

----------------------------------------------------------------------------
UnchangedGet ==
    UNCHANGED <<env, pc, hostMounted, memory, cpuInfo, cpuUsage, diskUsage, response, served, reqs, sh>>

----------------------------------------------------------------------------
(* The variables a specification does not use keep these values. *)

Unused == [phase |-> "unused"]

GetUnused ==
    /\ env = Unused
    /\ pc = "unused"
    /\ hostMounted = FALSE
    /\ memory = Unused
    /\ cpuInfo = Unused
    /\ cpuUsage = Unused
    /\ diskUsage = Unused
    /\ response = Unused
    /\ served = 0
    /\ reqs = Unused
    /\ sh = Unused

----------------------------------------------------------------------------
(* Several GET requests in flight together over one environment that does   *)
(* not change.  Every local of GET is a const of the invocation; the module  *)
(* has no variable of its own but the constant HOST_ROOT.                    *)

MaxConcurrent == 2

Requests == 1..MaxConcurrent

\* The locals of an invocation before its first statement
ReqIdle ==
    [ pc |-> "idle", hostMounted |-> FALSE,
      memory |-> [total |-> 0, free |-> 0, available |-> 0],
      cpuInfo |-> [count |-> 0], cpuUsage |-> Zero, diskUsage |-> Zero,
      response |-> NoResponse ]

\* The locals of an invocation after the statement it is at, in environment E
GetStatement(r, E) ==
    CASE r.pc = "idle"      -> [r EXCEPT !.pc = "memory", !.hostMounted = isHostMounted(View(E))]
      [] r.pc = "memory"    -> [r EXCEPT !.pc = "cpuInfo", !.memory = getHostMemory(View(E), E.os)]
      [] r.pc = "cpuInfo"   -> [r EXCEPT !.pc = "cpuUsage", !.cpuInfo = getHostCPUInfo(View(E), E.os)]
      [] r.pc = "cpuUsage"  -> [r EXCEPT !.pc = "diskUsage", !.cpuUsage = getHostCPUUsage(View(E), E.os)]
      [] r.pc = "diskUsage" -> [r EXCEPT !.pc = "respond", !.diskUsage = getHostDiskUsage(View(E), E.disk)]
      [] r.pc = "respond"   ->
            [r EXCEPT !.pc = "done",
                      !.response = [ status |-> 200,
                                     body |-> Snapshot(r.memory, r.cpuInfo, r.cpuUsage, r.diskUsage,
                                                       DiskTotals(View(E), E.disk), r.hostMounted) ]]

\* The environments of the requests in flight together: one host text each
\* for memory, processors and counters, everything else as for one request
PairEnvironments ==
    { E \in Environments \cup FaultyEnvironments :
        /\ E.host["/proc/meminfo"] = File(Meminfo(4, 1, 2))
        /\ E.host["/proc/cpuinfo"] = File(Cpuinfo2)
        /\ E.host["/proc/stat"] = File(StatBusy) }

PairInit ==
    /\ env \in PairEnvironments
    /\ reqs = [i \in Requests |-> ReqIdle]
    /\ pc = "unused" /\ hostMounted = FALSE /\ memory = Unused /\ cpuInfo = Unused
    /\ cpuUsage = Unused /\ diskUsage = Unused /\ response = Unused /\ served = 0

\* A mutant of ReqStep: the locals are variables of the module, kept once
ReqStepModuleLevel(i) ==
    /\ reqs[i].pc # "done"
    /\ reqs' = [j \in Requests |-> GetStatement(reqs[i], env)]
    /\ UNCHANGED <<env, pc, hostMounted, memory, cpuInfo, cpuUsage, diskUsage, response, served>>

\* Invocation i executes the statement it is at
ReqStep(i) ==
    /\ reqs[i].pc # "done"
    /\ reqs' = [reqs EXCEPT ![i] = GetStatement(reqs[i], env)]
    /\ UNCHANGED <<env, pc, hostMounted, memory, cpuInfo, cpuUsage, diskUsage, response, served>>

\* catch (error) in invocation i: the statement it is at raised
ReqCatch(i) ==
    /\ reqs[i].pc = env.fault
    /\ reqs' = [reqs EXCEPT ![i].pc = "done",
                            ![i].response = [ status |-> 500, body |-> [ error |-> "Erreur" ] ]]
    /\ UNCHANGED <<env, pc, hostMounted, memory, cpuInfo, cpuUsage, diskUsage, response, served>>

----------------------------------------------------------------------------
(* createTempUsers.sh: the prerequisites, then for each name given the      *)
(* creation of the account and its set-up, command by command.  The script   *)
(* runs under set -e: a command that fails outside an if ends it.            *)

MaxUsers == 2

UserNames == {"alice", "bob"}

\* "$@": up to MaxUsers names
ArgLists == UNION { [1..n -> UserNames] : n \in 0..MaxUsers }

\* The commands of one turn of the loop whose failure ends the script, each
\* with the position after it: generate_password, chpasswd, usermod -aG docker
\* (else error), eval echo ~user, mkdir -p, chmod 700, chown, curl (else
\* error), chmod 600, chown
AfterCommand ==
    [ password |-> "useradd", chpasswd |-> "usermod", usermod |-> "home", home |-> "mkdir",
      mkdir |-> "chmod700", chmod700 |-> "chownDir", chownDir |-> "curl", curl |-> "chmod600",
      chmod600 |-> "chownKeys", chownKeys |-> "at" ]

\* at now + 2 hours, reading "userdel -r <user>"
DeletionJob(user) == [command |-> "userdel -r", user |-> user, hours |-> 2]

ShInit ==
    sh \in { [ pc |-> "prechecks", args |-> args, i |-> 0,
               root |-> root, docker |-> docker, at |-> at,
               accounts |-> existing, made |-> {}, jobs |-> {},
               USERS_CREATED |-> <<>>, status |-> -1 ] :
             args \in ArgLists, root \in BOOLEAN, docker \in BOOLEAN, at \in BOOLEAN,
             existing \in {{}, {"alice"}} }

\* error(): the message, then exit 1; and the exit of set -e
ShExit(s, status) == [s EXCEPT !.pc = "exit", !.status = status]

\* done: the next name of "$@", or the summary after the last
ShNextUser(s) ==
    IF s.i < Len(s.args) THEN [s EXCEPT !.i = @ + 1, !.pc = "id"] ELSE [s EXCEPT !.pc = "summary"]

\* The four checks before the loop
ShPrechecks ==
    /\ sh.pc = "prechecks"
    /\ sh' = IF sh.root /\ sh.docker /\ sh.at /\ Len(sh.args) > 0
             THEN ShNextUser(sh)
             ELSE ShExit(sh, 1)

\* if id "$USERNAME": an account of that name is left alone
ShIdCheck ==
    /\ sh.pc = "id"
    /\ sh' = IF sh.args[sh.i] \in sh.accounts THEN ShNextUser(sh) ELSE [sh EXCEPT !.pc = "password"]

\* if useradd -m -s /bin/bash "$USERNAME"; else error
ShUseradd ==
    /\ sh.pc = "useradd"
    /\ \E ok \in BOOLEAN :
          sh' = IF ok
                THEN [sh EXCEPT !.pc = "chpasswd",
                                !.accounts = @ \cup {sh.args[sh.i]},
                                !.made = @ \cup {sh.args[sh.i]}]
                ELSE ShExit(sh, 1)

\* One of the commands whose failure ends the script
ShCommand ==
    /\ sh.pc \in DOMAIN AfterCommand
    /\ \E ok \in BOOLEAN :
          sh' = IF ok THEN [sh EXCEPT !.pc = AfterCommand[sh.pc]] ELSE ShExit(sh, 1)

\* if echo "userdel -r $USERNAME" | at now + 2 hours; else warning
ShAt ==
    /\ sh.pc = "at"
    /\ \E ok \in BOOLEAN :
          sh' = [sh EXCEPT !.pc = "record",
                           !.jobs = IF ok THEN @ \cup {DeletionJob(sh.args[sh.i])} ELSE @]

\* USERS_CREATED+=(...), and the end of the turn
ShRecord ==
    /\ sh.pc = "record"
    /\ sh' = ShNextUser([sh EXCEPT !.USERS_CREATED = Append(@, sh.args[sh.i])])

\* The summary, and the end of the script
ShSummary ==
    /\ sh.pc = "summary"
    /\ sh' = ShExit(sh, 0)

----------------------------------------------------------------------------
(* The other functions on their own: one call of a function on inputs drawn *)
(* from small sets, and the inputs changing between calls.                  *)

\* execSync kills the command after its timeout and throws
Commands == {"hostname -i", "ip addr"}

\* What a command under nsenter may do: exit with a status other than 0, run
\* out of time, print nothing, print an address and a line feed
CommandOutcomes ==
    { CmdFails, CmdTimesOut, Ret(NoText), Ret(<< <<Ip(192, 168, 0, 19)>>, <<>> >>) }

ExecExecutors ==
    [ proc1 : BOOLEAN, nsenter : BOOLEAN, run : [Commands -> CommandOutcomes] ]

CallIdle == [t |-> "none", v |-> NoText]

ExecCases ==
    { [ fn |-> "exec", phase |-> "ready", X |-> x, command |-> c, F |-> Unused, os |-> Unused,
        given |-> Unused, out |-> CallIdle, ran |-> <<>> ] :
      x \in ExecExecutors, c \in Commands }

\* One call of execInHostNamespace(command)
ExecCall ==
    /\ call.fn = "exec" /\ call.phase = "ready"
    /\ call' = [call EXCEPT !.phase = "returned",
                            !.out = execInHostNamespace(call.X, call.command),
                            !.ran = execSyncCalls(call.X, call.command)]

\* nsenter is taken off the search path
ExecNsenterRemoved ==
    /\ call.fn = "exec" /\ call.phase = "returned"
    /\ call.X.nsenter
    /\ call' = [call EXCEPT !.phase = "ready", !.X.nsenter = FALSE]

\* The command starts to run out of time
ExecCommandTimesOut ==
    /\ call.fn = "exec" /\ call.phase = "returned"
    /\ call.X.run[call.command].t = "ret"
    /\ call' = [call EXCEPT !.phase = "ready", !.X.run[call.command] = CmdTimesOut]

\* Files seen in the container alone: nothing under /proc/1/root or /host
ContainerView(files) ==
    [ proc1root |-> FALSE, hostProc |-> FALSE, hostSys |-> FALSE, hostEtc |-> FALSE,
      at |-> [ proc1 |-> [p \in DOMAIN files |-> Missing],
               host  |-> [p \in DOMAIN files |-> Missing],
               cont  |-> files ] ]

\* A /proc/cpuinfo: a model line, n processor lines and, when listed > 0, a
\* "CPU(s)" line.  The forms:   "model name\t: Xeon E5"   "processor\t: 0"
\*                              "model name: Xeon E5"     "processor 0"
\*                              "model name = Xeon E5"    "processor = 0"
CpuinfoOf(form, n, listed) ==
    LET modelLine ==
            CASE form = "tab-colon" -> <<W("model"), W("name"), W(":"), W("Xeon"), W("E5")>>
              [] form = "colon"     -> <<W("model"), W("name:"), W("Xeon"), W("E5")>>
              [] form = "equals"    -> <<W("model"), W("name"), W("="), W("Xeon"), W("E5")>>
        processorLine(i) ==
            CASE form = "tab-colon" -> <<W("processor"), W(":"), N(i - 1)>>
              [] form = "colon"     -> <<W("processor"), N(i - 1)>>
              [] form = "equals"    -> <<W("processor"), W("="), N(i - 1)>>
    IN  <<modelLine>> \o [i \in 1..n |-> processorLine(i)]
        \o (IF listed > 0 THEN << <<W("CPU(s):"), N(listed)>> >> ELSE <<>>)
        \o << <<>> >>

CpuInfoCases ==
    { [ fn |-> "cpuinfo", phase |-> "ready", X |-> Unused, command |-> "",
        F |-> ContainerView([p \in {"/proc/cpuinfo"} |-> File(CpuinfoOf(form, n, listed))]),
        os |-> [cpus |-> cpus],
        given |-> [form |-> form, n |-> n, listed |-> listed],
        out |-> CallIdle, ran |-> <<>> ] :
      form \in {"tab-colon", "colon", "equals"}, n \in {0, 1, 2, 5}, listed \in {0, 3},
      cpus \in {0, 4} }

\* One call of getHostCPUInfo()
CpuInfoCall ==
    /\ call.fn = "cpuinfo" /\ call.phase = "ready"
    /\ call' = [call EXCEPT !.phase = "returned", !.out = getHostCPUInfo(call.F, call.os)]

\* A processor is taken offline: its line leaves /proc/cpuinfo
CpuInfoProcessorOffline ==
    /\ call.fn = "cpuinfo" /\ call.phase = "returned"
    /\ call.given.n > 0
    /\ call' = [call EXCEPT
                  !.phase = "ready",
                  !.given.n = @ - 1,
                  !.F = ContainerView([p \in {"/proc/cpuinfo"} |->
                          File(CpuinfoOf(call.given.form, call.given.n - 1, call.given.listed))])]

\* The two files getHostHostname reads
HostnamePaths == {"/proc/sys/kernel/hostname", "/etc/hostname"}

\* Names: a machine's, a Docker container id in either case, the placeholder,
\* eleven hex digits, and the name a container was started with
NameWeb == << <<Name(<<"w", "e", "b", "-", "0", "1">>)>>, <<>> >>
NameContainerId == << <<Name(<<"3", "f", "2", "a", "9", "c", "1", "b", "7", "d", "4", "e">>)>>, <<>> >>
NameContainerIdUpper == << <<Name(<<"3", "F", "2", "A", "9", "C", "1", "B", "7", "D", "4", "E">>)>>, <<>> >>
NameHost == << <<Name(<<"h", "o", "s", "t">>)>>, <<>> >>
NameElevenHex == << <<Name(<<"d", "e", "a", "d", "b", "e", "e", "f", "0", "0", "1">>)>> >>
NameApp == << <<Name(<<"a", "p", "p">>)>> >>

\* The host's two files, seen under /proc/1/root, under /host, or not at all;
\* the container's own two files; and what os.hostname() says
HostnameViews ==
    { [ proc1root |-> access = "proc1", hostProc |-> access = "host",
        hostSys |-> access = "host", hostEtc |-> access = "host",
        at |-> [ proc1 |-> [p \in HostnamePaths |->
                              IF p = "/etc/hostname" THEN he ELSE hk],
                 host  |-> [p \in HostnamePaths |->
                              IF p = "/etc/hostname" THEN he ELSE hk],
                 cont  |-> [p \in HostnamePaths |->
                              IF p = "/etc/hostname" THEN ce ELSE ck] ] ] :
      access \in {"none", "proc1", "host"},
      hk \in {Missing, File(NameWeb), File(NameContainerIdUpper), File(NameHost)},
      he \in {Missing, File(NameWeb), File(NameContainerId), File(NameHost), File(NameElevenHex)},
      ck \in {File(NameContainerId), File(<< <<>> >>)},
      ce \in {File(NameContainerId), Missing} }

HostnameCases ==
    { [ fn |-> "hostname", phase |-> "ready", X |-> Unused, command |-> "",
        F |-> f, os |-> [hostname |-> h], given |-> Unused,
        out |-> CallIdle, ran |-> <<>> ] :
      f \in HostnameViews, h \in {trim(NameContainerId), NameApp} }

\* One call of getHostHostname()
HostnameCall ==
    /\ call.fn = "hostname" /\ call.phase = "ready"
    /\ call' = [call EXCEPT !.phase = "returned", !.out = getHostHostname(call.F, call.os)]

\* The host's files go out of sight: no /proc/1/root, nothing under /host
HostnameHostOutOfSight ==
    /\ call.fn = "hostname" /\ call.phase = "returned"
    /\ call.F.proc1root \/ call.F.hostProc
    /\ call' = [call EXCEPT !.phase = "ready",
                            !.F.proc1root = FALSE, !.F.hostProc = FALSE,
                            !.F.hostSys = FALSE, !.F.hostEtc = FALSE]

\* getHostDiskUsage: with or without /proc/1/root, what statfsSync gives for
\* either root, and what "df -h /" does
DiskCases ==
    { [ fn |-> "disk", phase |-> "ready",
        X |-> [ statfs |-> [root \in {"/", "/proc/1/root/"} |-> IF root = "/" THEN cs ELSE hs],
                df |-> df ],
        command |-> "", F |-> [proc1root |-> r], os |-> Unused, given |-> Unused,
        out |-> CallIdle, ran |-> <<>> ] :
      r \in BOOLEAN, hs \in HostStatfs, cs \in ContStatfs, df \in DfResults }

\* One call of getHostDiskUsage()
DiskCall ==
    /\ call.fn = "disk" /\ call.phase = "ready"
    /\ call' = [call EXCEPT !.phase = "returned",
                            !.out = getHostDiskUsage(call.F, call.X),
                            !.ran = diskExecSyncCalls(call.F, call.X)]

\* statfsSync of the root path begins to fail
DiskStatfsFails ==
    /\ call.fn = "disk" /\ call.phase = "returned"
    /\ call.X.statfs[RootPath(call.F)].ok
    /\ call' = [call EXCEPT !.phase = "ready", !.ran = <<>>,
                            !.X.statfs[RootPath(call.F)] = StatfsThrows]

----------------------------------------------------------------------------
(* SpecRead: readHostFile *)

InitRead == RdInit /\ ip = Unused /\ call = Unused /\ GetUnused

NextRead ==
    \/ RdCall /\ UNCHANGED <<ip, call>> /\ UnchangedGet
    \/ (\E tier \in {"proc1", "host", "cont"} : RdRemove(tier)) /\ UNCHANGED <<ip, call>> /\ UnchangedGet
    \/ RdLoseProc1Root /\ UNCHANGED <<ip, call>> /\ UnchangedGet
    \/ RdUnmountSys /\ UNCHANGED <<ip, call>> /\ UnchangedGet

SpecRead == InitRead /\ [][NextRead]_vars

\* A tier answers: its block is entered and its copy is a regular file whose
\* trimmed content is not empty
RdAnswers(tier) ==
    /\ CASE tier = "proc1" -> rd.F.proc1root
         [] tier = "host"  -> rd.F.hostProc /\ rd.F.hostSys /\ rd.F.hostEtc
         [] tier = "cont"  -> TRUE
    /\ rd.F.at[tier][RdPath].kind = "file"
    /\ trim(rd.F.at[tier][RdPath].content) # NoText

RdRaw(tier) == rd.F.at[tier][RdPath].content

\* The tier after a tier, in the order of the claim
RdNextTier(tier) ==
    CASE tier = "proc1" -> "host"
      [] tier = "host"  -> "cont"
      [] tier = "cont"  -> "fallback"

\* What the claim's cascade returns, given how a tier's content is returned
RdCascade(Content(_)) ==
    IF RdAnswers("proc1") THEN Content("proc1")
    ELSE IF RdAnswers("host") THEN Content("host")
    ELSE IF RdAnswers("cont") THEN Content("cont")
    ELSE rd.fallback

RdTrimmed(tier) == trim(RdRaw(tier))

\* C4 as stated: readHostFile returns the content of the first tier, in the
\* order /proc/1/root, /host (only when mounted), container, that is a regular
\* file with non-empty trimmed content, and the fallback only when all fail.
C4_ReturnsContentOfFirstTier ==
    rd.phase = "returned" =>
        /\ rd.out.t = "ret"
        /\ rd.out.v = RdCascade(RdRaw)

\* C4 amended: readHostFile returns the TRIMMED content of the first tier, in
\* the order /proc/1/root, /host (only when /host/proc, /host/sys and /host/etc
\* all exist), container, whose target is a regular file with non-empty trimmed
\* content; when the tier that answered the previous call is made unavailable
\* the next call returns what the next tier yields; the fallback's result is
\* returned only when all three tiers fail.
C4_ReturnsTrimmedContentOfFirstTier ==
    rd.phase = "returned" =>
        /\ rd.out.t = "ret"
        /\ rd.out.v = RdCascade(RdTrimmed)
        /\ (rd.out.src = "fallback") <=> (\A tier \in {"proc1", "host", "cont"} : ~RdAnswers(tier))
        /\ \A tier \in {"proc1", "host", "cont"} :
              (rd.prev.src = tier /\ rd.removed = tier) =>
                  /\ rd.out.src # tier
                  /\ (RdNextTier(tier) # "fallback" /\ RdAnswers(RdNextTier(tier))
                        => rd.out.v = RdTrimmed(RdNextTier(tier)) /\ rd.out.src = RdNextTier(tier))
                  /\ (RdNextTier(tier) = "fallback" => rd.out.v = rd.fallback)

\* C4 witness: the tier that answered was made unavailable, and the call after
\* returned the next tier's content, which trimming changed
C4_Witness ==
    /\ rd.phase = "returned"
    /\ rd.prev.src = "proc1" /\ rd.removed = "proc1"
    /\ rd.out.src = "host"
    /\ rd.out.v # RdRaw("host")
    /\ RdAnswers("cont")

\* C5: an exception from stat or read at any tier does not abort the cascade:
\* the later tiers and the fallback are still tried (the result is that of the
\* cascade over the tiers that did not fail), and readHostFile returns a string.
C5_ReadErrorDoesNotAbort ==
    rd.phase = "returned" =>
        /\ rd.out.t = "ret"
        /\ \A tier \in {"proc1", "host", "cont"} :
              (rd.F.at[tier][RdPath].kind \in {"staterr", "readerr"}) => rd.out.src # tier
        /\ rd.out.v = RdCascade(RdTrimmed)

\* C5 witness: the first two tiers raised, and the third answered
C5_Witness ==
    /\ rd.phase = "returned"
    /\ rd.F.proc1root /\ rd.F.at["proc1"][RdPath].kind = "staterr"
    /\ rd.F.hostProc /\ rd.F.hostSys /\ rd.F.hostEtc /\ rd.F.at["host"][RdPath].kind = "readerr"
    /\ rd.out.t = "ret" /\ rd.out.src = "cont"

----------------------------------------------------------------------------
(* SpecIP: getHostIP *)

InitIP == IpInit /\ rd = Unused /\ call = Unused /\ GetUnused

NextIP ==
    \/ IpCall /\ UNCHANGED <<rd, call>> /\ UnchangedGet
    \/ (\E k \in {1, 2} : IpCommandFails(k)) /\ UNCHANGED <<rd, call>> /\ UnchangedGet
    \/ (\E k \in {4, 5, 6} : IpFileRemoved(k)) /\ UNCHANGED <<rd, call>> /\ UnchangedGet

SpecIP == InitIP /\ [][NextIP]_vars

\* The exclusion filter: 127.0.0.0/8, 0.0.0.0, 255.255.255.255, 172.16.0.0/12
Excluded(a) ==
    \/ a[1] = 127
    \/ a = <<0, 0, 0, 0>>
    \/ a = <<255, 255, 255, 255>>
    \/ isDockerIP(a)

\* C1 as stated: whatever the command outputs, the files of /proc/net and the
\* container's interfaces, the address getHostIP returns is never in
\* 127.0.0.0/8 or 172.16.0.0/12, nor 0.0.0.0 or 255.255.255.255.
C1_NeverReturnsExcludedAddress ==
    (ip.phase = "returned" /\ ip.out.k = "ip") => ~Excluded(ip.out.a)

\* The first strategy from the i-th on, in the fixed order, that yields an
\* address passing the exclusion filter, as an address; else the fallback's
RECURSIVE IpFirstPassing(_, _)
IpFirstPassing(e, i) ==
    IF i > 6 THEN ContainerAddress(e)
    ELSE IF Strategy(i, e).t = "ret" /\ ~Excluded(Strategy(i, e).v) THEN Address(Strategy(i, e).v)
    ELSE IpFirstPassing(e, i + 1)

\* The strategy that answers: the first that yields an address passing the
\* exclusion filter; 7 for the fallback
IpAnswering(e) ==
    IF \E k \in 1..6 : Strategy(k, e).t = "ret" /\ ~Excluded(Strategy(k, e).v)
    THEN CHOOSE k \in 1..6 : /\ Strategy(k, e).t = "ret" /\ ~Excluded(Strategy(k, e).v)
                            /\ \A j \in 1..(k - 1) : ~(Strategy(j, e).t = "ret" /\ ~Excluded(Strategy(j, e).v))
    ELSE 7

\* C8 as stated: the strategies run in their fixed order and the first that
\* yields an address passing the exclusion filter determines the result; and
\* once strategy k is made unavailable the result is what the strategies after
\* k yield (the fallback after the sixth).
C8_FirstPassingStrategyDetermines ==
    ip.phase = "returned" =>
        /\ ip.out = IpFirstPassing(ip.e, 1)
        /\ ip.disabled # 0 => /\ IpAnswering(ip.e) # ip.disabled
                              /\ IpAnswering(ip.e) > ip.disabled => ip.out = IpFirstPassing(ip.e, ip.disabled + 1)

\* The interface of the default route, as getHostIP finds it
IpMainInterface == MainInterface(readHostFile(ip.e.F, "/proc/net/route", NoText).v)

\* The rows of the neighbor table for an interface that hold an IPv4 address
IpNeighborRows(iface) ==
    SelectSeq(Body(readHostFile(ip.e.F, "/proc/net/arp", NoText).v),
              LAMBDA r : Len(r) >= 6 /\ r[6].w = iface /\ IsDottedQuad(r[1]))

\* Those of them whose hardware address is the interface's own, when that is
\* known; all of them when it is not
IpMacMatchedRows(iface) ==
    SelectSeq(IpNeighborRows(iface),
              LAMBDA r : ip.e.mac[iface] = "" \/ r[4].w = ip.e.mac[iface])

\* No strategy before the routing table yields an address
IpNoneBeforeRoute == \A k \in 1..4 : Strategy(k, ip.e).t # "ret"

\* C16 as stated: with a default route on a non-loopback interface, an entry
\* of the neighbor table for that interface with a non-excluded IPv4 address,
\* and no earlier strategy yielding, getHostIP returns such an entry's address.
C16_ReturnsNeighborAddress ==
    ( /\ ip.phase = "returned"
      /\ IpNoneBeforeRoute
      /\ IpMainInterface # ""
      /\ \E i \in 1..Len(IpNeighborRows(IpMainInterface)) :
            ~Excluded(IpNeighborRows(IpMainInterface)[i][1].a) )
    => /\ ip.out.k = "ip"
       /\ \E i \in 1..Len(IpNeighborRows(IpMainInterface)) :
             /\ ~Excluded(IpNeighborRows(IpMainInterface)[i][1].a)
             /\ ip.out.a = IpNeighborRows(IpMainInterface)[i][1].a

\* C16 amended: with a default route on a non-loopback interface and no
\* earlier strategy yielding, when the first entry of the neighbor table for
\* that interface whose hardware address equals the interface's own MAC (any
\* entry for the interface when that MAC cannot be read) has a non-excluded
\* IPv4 address, getHostIP returns exactly that address.
C16_ReturnsMacMatchedNeighborAddress ==
    ( /\ ip.phase = "returned"
      /\ IpNoneBeforeRoute
      /\ IpMainInterface # ""
      /\ Len(IpMacMatchedRows(IpMainInterface)) > 0
      /\ ~Excluded(IpMacMatchedRows(IpMainInterface)[1][1].a) )
    => ip.out = Address(IpMacMatchedRows(IpMainInterface)[1][1].a)

\* C16 witness: the interface's MAC is known, an entry of another MAC comes
\* first for the interface, and the address of the matched entry is returned
C16_Witness ==
    /\ ip.phase = "returned"
    /\ IpNoneBeforeRoute
    /\ IpMainInterface = "eth0"
    /\ ip.e.mac["eth0"] = "aa:bb"
    /\ Len(IpMacMatchedRows("eth0")) > 0
    /\ IpNeighborRows("eth0")[1] # IpMacMatchedRows("eth0")[1]
    /\ ip.out = Address(<<192, 168, 0, 19>>)

\* The dotted quads of the fib_trie text, in the order of the file, whose
\* octets are in 0..255 and which pass the exclusion filter
IpFibAccepted ==
    SelectSeq(Addrs(SelectSeq(Tokens(readHostFile(ip.e.F, "/proc/net/fib_trie", NoText).v),
                              HoldsDottedQuad)),
              LAMBDA a : (\A i \in 1..4 : a[i] \in 0..255) /\ ~Excluded(a))

\* No strategy before the forwarding-information trie yields an address
IpNoneBeforeFibTrie == \A k \in 1..3 : Strategy(k, ip.e).t # "ret"

\* C21: when the strategies before it yield nothing, the fib_trie strategy
\* returns the first accepted address that starts with 192.168. or 10.
\* wherever it stands in the file; the first accepted address when none is
\* private; and nothing when no token is accepted, the result then being
\* that of the strategies after it.
C21_FibTriePrefersPrivate ==
    (ip.phase = "returned" /\ IpNoneBeforeFibTrie) =>
        /\ (\E i \in 1..Len(IpFibAccepted) : IsPrivate(IpFibAccepted[i])) =>
              /\ ip.out.k = "ip"
              /\ IsPrivate(ip.out.a)
              /\ \E i \in 1..Len(IpFibAccepted) :
                    /\ ip.out.a = IpFibAccepted[i]
                    /\ \A j \in 1..(i - 1) : ~IsPrivate(IpFibAccepted[j])
        /\ (Len(IpFibAccepted) > 0 /\ \A i \in 1..Len(IpFibAccepted) : ~IsPrivate(IpFibAccepted[i])) =>
              ip.out = Address(IpFibAccepted[1])
        /\ Len(IpFibAccepted) = 0 =>
              /\ Strategy(4, ip.e).t # "ret"
              /\ ip.out = getHostIPFrom(ip.e, 5)

\* C21 witness: a public address stands before the private one in the file,
\* and the private one is returned
C21_Witness ==
    /\ ip.phase = "returned" /\ IpNoneBeforeFibTrie
    /\ Len(IpFibAccepted) >= 2
    /\ IpFibAccepted[1] = <<8, 8, 4, 4>>
    /\ ip.out = Address(<<192, 168, 0, 19>>)

\* None of the six strategies yields an address
IpNoneOfSix == \A k \in 1..6 : Strategy(k, ip.e).t # "ret"

\* The container's own addresses that are IPv4, not internal and outside the
\* bridge range 172.16.0.0/12, in the order of os.networkInterfaces()
IpContainerCandidates ==
    SelectSeq(ip.e.interfaces,
              LAMBDA addr : addr.family = "IPv4" /\ ~addr.internal /\ ~isDockerIP(addr.address))

\* C22: when none of the six strategies yields an address, getHostIP returns
\* the first non-internal IPv4 address of the container's interfaces outside
\* the bridge range; it returns "Non disponible" exactly when no strategy
\* yields an address and the container has no such address either.
C22_ContainerAddressOrSentinel ==
    ip.phase = "returned" =>
        /\ (IpNoneOfSix /\ Len(IpContainerCandidates) > 0) =>
              ip.out = Address(IpContainerCandidates[1].address)
        /\ (ip.out = NonDisponible) <=> (IpNoneOfSix /\ Len(IpContainerCandidates) = 0)

\* C22 witness: no strategy yields, a bridge address stands first among the
\* container's interfaces, and the address after it comes back
C22_Witness ==
    /\ ip.phase = "returned" /\ IpNoneOfSix
    /\ Len(ip.e.interfaces) = 3
    /\ ip.e.interfaces[2].address = <<172, 17, 0, 2>>
    /\ ip.out = Address(<<10, 0, 0, 7>>)

\* The rows of the routing table for the interface of the default route
IpRouteRows ==
    SelectSeq(Body(readHostFile(ip.e.F, "/proc/net/route", NoText).v),
              LAMBDA r : Len(r) >= 3 /\ r[1].w = IpMainInterface)

\* What the hexadecimal fields of those rows decode to, column by column
\* (columns numbered from 0: column 7, the mask, is the eighth field)
IpRouteDecoded(col) ==
    { HexToIp(IpRouteRows[i][col + 1]) :
        i \in { i \in 1..Len(IpRouteRows) : /\ Len(IpRouteRows[i]) > col
                                            /\ IpRouteRows[i][col + 1].w = "hex" } }

\* The decoded fields outside the mask column that are not 0.0.0.0, not
\* 127.0.0.1, not a bridge address and do not begin with 255.
IpRouteAccepted ==
    { a \in UNION { IpRouteDecoded(col) : col \in 2..6 } :
        /\ a # <<0, 0, 0, 0>> /\ a # <<127, 0, 0, 1>>
        /\ ~isDockerIP(a)
        /\ a[1] # 255 }

\* The raw routing-table fallback is reached: no earlier strategy yields, a
\* default route names an interface, and the neighbor table gives nothing
IpReachesRouteScan ==
    /\ IpNoneBeforeRoute
    /\ IpMainInterface # ""
    /\ ArpForInterface(ip.e, IpMainInterface).t # "ret"

\* C27: in the raw routing-table fallback of strategy 5 the address returned
\* is decoded from a field outside the mask column (index 7) and does not
\* begin with 255.; when an accepted candidate starts with 192.168. or 10.
\* such a candidate is returned; when no field outside the mask column is
\* accepted the fallback yields nothing and the cascade goes on.
C27_RouteScanSkipsMasks ==
    (ip.phase = "returned" /\ IpReachesRouteScan) =>
        /\ IpRouteAccepted # {} =>
              /\ ip.out.k = "ip"
              /\ ip.out.a \in IpRouteAccepted
              /\ ip.out.a[1] # 255
              /\ (\E a \in IpRouteAccepted : IsPrivate(a)) => IsPrivate(ip.out.a)
        /\ IpRouteAccepted = {} =>
              /\ RouteForInterface(readHostFile(ip.e.F, "/proc/net/route", NoText).v,
                                   IpMainInterface).t # "ret"
              /\ ip.out = IF FibTrieForInterface(ip.e, IpMainInterface).t = "ret"
                          THEN Address(FibTrieForInterface(ip.e, IpMainInterface).v)
                          ELSE getHostIPFrom(ip.e, 6)

\* C27 witness: the mask column holds 128.0.0.0, which would pass the test, a
\* gateway field decodes to 255.255.255.0, a public gateway comes first, and
\* the private gateway is returned
C27_Witness ==
    /\ ip.phase = "returned" /\ IpReachesRouteScan
    /\ <<128, 0, 0, 0>> \in IpRouteDecoded(7)
    /\ <<255, 255, 255, 0>> \in IpRouteDecoded(2)
    /\ <<203, 0, 113, 1>> \in IpRouteAccepted
    /\ ip.out = Address(<<10, 8, 8, 1>>)

\* The source of strategy k fails: for the two commands, nsenter is missing,
\* or the command exits with a status other than 0 or runs out of time; for
\* the three files, statSync or readFileSync throws
IpSourceFails(k) ==
    CASE k \in {1, 2} ->
            /\ ip.e.X.proc1
            /\ \/ ~ip.e.X.nsenter
               \/ ip.e.X.run[IF k = 1 THEN "hostname -i" ELSE "ip addr"].t \in {"throw", "timeout"}
      [] k = 4 -> ip.e.F.at.cont["/proc/net/fib_trie"].kind \in {"staterr", "readerr"}
      [] k = 5 -> ip.e.F.at.cont["/proc/net/route"].kind \in {"staterr", "readerr"}
      [] k = 6 -> ip.e.F.at.cont["/proc/net/arp"].kind \in {"staterr", "readerr"}
      [] OTHER -> FALSE

\* What the strategies other than k give: the address of the first of them,
\* in the order, that yields one; the fallback's when none does
IpResultWithout(k) ==
    LET yielding == { j \in 1..6 : j # k /\ Strategy(j, ip.e).t = "ret" }
    IN  IF yielding = {} THEN ContainerAddress(ip.e)
        ELSE Address(Strategy(CHOOSE j \in yielding : \A i \in yielding : j <= i, ip.e).v)

\* C28: when the source of one strategy fails (the command times out, exits
\* with a status other than 0 or nsenter is missing; reading the file
\* throws), that strategy yields nothing and the result is that of the other
\* strategies taken in order, the fallback coming after them all.
C28_FailureSkipsOneStrategyOnly ==
    ip.phase = "returned" =>
        \A k \in 1..6 :
            IpSourceFails(k) => /\ Strategy(k, ip.e).t # "ret"
                                /\ ip.out = IpResultWithout(k)

\* C28 witness: "hostname -i" runs out of time, reading fib_trie throws, and
\* the address comes from the routing table or the neighbor table
C28_Witness ==
    /\ ip.phase = "returned"
    /\ IpSourceFails(1) /\ ip.e.X.nsenter /\ ip.e.X.run["hostname -i"] = CmdTimesOut
    /\ IpSourceFails(4)
    /\ Strategy(2, ip.e).t # "ret"
    /\ ip.out.k = "ip"
    /\ \E k \in {5, 6} : Strategy(k, ip.e).t = "ret" /\ ip.out = Address(Strategy(k, ip.e).v)

\* C29 as stated: whatever strategy produced it, the value getHostIP returns
\* is "Non disponible" or a dotted quad whose four octets are each in 0..255.
C29_ReturnsSentinelOrWellFormedQuad ==
    ip.phase = "returned" =>
        \/ ip.out = NonDisponible
        \/ /\ ip.out.k = "ip"
           /\ Len(ip.out.a) = 4
           /\ \A i \in 1..4 : ip.out.a[i] \in 0..255


----------------------------------------------------------------------------
(* SpecCalls: execInHostNamespace, getHostCPUInfo, getHostHostname,
   getHostDiskUsage *)

InitCalls == call \in ExecCases \cup CpuInfoCases \cup HostnameCases \cup DiskCases /\ rd = Unused /\ ip = Unused /\ GetUnused

NextCalls ==
    \/ ExecCall /\ UNCHANGED <<rd, ip>> /\ UnchangedGet
    \/ ExecNsenterRemoved /\ UNCHANGED <<rd, ip>> /\ UnchangedGet
    \/ ExecCommandTimesOut /\ UNCHANGED <<rd, ip>> /\ UnchangedGet
    \/ CpuInfoCall /\ UNCHANGED <<rd, ip>> /\ UnchangedGet
    \/ CpuInfoProcessorOffline /\ UNCHANGED <<rd, ip>> /\ UnchangedGet
    \/ HostnameCall /\ UNCHANGED <<rd, ip>> /\ UnchangedGet
    \/ HostnameHostOutOfSight /\ UNCHANGED <<rd, ip>> /\ UnchangedGet
    \/ DiskCall /\ UNCHANGED <<rd, ip>> /\ UnchangedGet
    \/ DiskStatfsFails /\ UNCHANGED <<rd, ip>> /\ UnchangedGet

SpecCalls == InitCalls /\ [][NextCalls]_vars

\* C12: execInHostNamespace looks for /proc/1 and then for nsenter before it
\* runs the command, and never runs the command when either is missing; a
\* missing /proc/1, a missing nsenter, a timeout and an exit status other than
\* 0 all yield null, and the caller never gets an exception.
C12_ChecksFirstAndYieldsNull ==
    (call.fn = "exec" /\ call.phase = "returned") =>
        /\ call.out.t \in {"null", "ret"}
        /\ ~call.X.proc1 => call.ran = <<>> /\ call.out = Null
        /\ ~call.X.nsenter => (\A i \in 1..Len(call.ran) : call.ran[i] # call.command) /\ call.out = Null
        /\ call.X.run[call.command].t # "ret" => call.out = Null
        /\ \A i \in 1..Len(call.ran) :
              call.ran[i] = call.command =>
                  /\ call.X.proc1 /\ call.X.nsenter
                  /\ i = 2 /\ call.ran[1] = "which nsenter"
        /\ (call.X.proc1 /\ call.X.nsenter /\ call.X.run[call.command].t = "ret") =>
              call.out = Ret(trim(call.X.run[call.command].v))

\* C12 witness: both checks passed, the command ran out of time, null came back
C12_Witness ==
    /\ call.fn = "exec" /\ call.phase = "returned"
    /\ call.X.proc1 /\ call.X.nsenter
    /\ call.X.run[call.command] = CmdTimesOut
    /\ call.ran = <<"which nsenter", call.command>>
    /\ call.out = Null

CallKernelHostname == readHostFile(call.F, "/proc/sys/kernel/hostname", NoText).v
CallEtcHostname == readHostFile(call.F, "/etc/hostname", NoText).v

\* Empty, a 12-hex-digit container id, or the literal "host"
HostnameRejected(t) ==
    t \in {NoText, trim(NameContainerId), trim(NameContainerIdUpper), trim(NameHost)}

\* C19: getHostHostname returns the kernel's host name unless that is empty,
\* twelve hex digits or "host"; then what /etc/hostname holds under the same
\* test; then the container's own host name; and, the container's own host
\* name being non-empty, the result is never empty.
C19_HostnameCascade ==
    (call.fn = "hostname" /\ call.phase = "returned") =>
        /\ ~HostnameRejected(CallKernelHostname) => call.out = CallKernelHostname
        /\ (HostnameRejected(CallKernelHostname) /\ ~HostnameRejected(CallEtcHostname)) =>
              call.out = CallEtcHostname
        /\ (HostnameRejected(CallKernelHostname) /\ HostnameRejected(CallEtcHostname)) =>
              call.out = call.os.hostname
        /\ call.out # NoText
        /\ ~HostnameRejected(call.out) \/ call.out = call.os.hostname

\* C19 witness: the kernel's name is a container id in capitals, /etc/hostname
\* holds "host", and the container's own name comes back
C19_Witness ==
    /\ call.fn = "hostname" /\ call.phase = "returned"
    /\ CallKernelHostname = trim(NameContainerIdUpper)
    /\ CallEtcHostname = trim(NameHost)
    /\ call.os.hostname = NameApp
    /\ call.out = NameApp

\* What statfsSync gives getHostDiskUsage for the root path it chose
CallStatfs == call.X.statfs[IF call.F.proc1root THEN "/proc/1/root/" ELSE "/"]

\* C20: getHostDiskUsage calls statfsSync first and, when that succeeds, runs
\* no command and returns its figure; only when statfsSync throws does it run
\* df, whose percentage column it returns; when df fails too or prints no
\* number there, it returns 0; and the caller always gets a value, never an
\* exception.
C20_StatfsThenDfThenZero ==
    (call.fn = "disk" /\ call.phase = "returned") =>
        /\ "k" \in DOMAIN call.out
        /\ CallStatfs.ok =>
              /\ call.ran = <<>>
              /\ call.out = Clamp(JsTimes(JsDivide((CallStatfs.blocks - CallStatfs.bavail) * CallStatfs.bsize,
                                                   CallStatfs.blocks * CallStatfs.bsize), 100))
        /\ ~CallStatfs.ok =>
              /\ call.ran = <<"df -h / 2>/dev/null">>
              /\ call.X.df = Ret(DfOutput(Pct(45))) => call.out = Num(45, 1)
              /\ call.X.df # Ret(DfOutput(Pct(45))) => call.out = Zero

\* C20 witness: statfsSync threw, df was run and failed, and 0 came back
C20_Witness ==
    /\ call.fn = "disk" /\ call.phase = "returned"
    /\ ~CallStatfs.ok
    /\ call.X.df.t = "throw"
    /\ call.ran = <<"df -h / 2>/dev/null">>
    /\ call.out = Zero

----------------------------------------------------------------------------
(* SpecPair: GET requests in flight together *)

InitPair == PairInit /\ rd = Unused /\ ip = Unused /\ call = Unused /\ sh = Unused

NextPair ==
    \/ (\E i \in Requests : ReqStep(i)) /\ UNCHANGED <<rd, ip, call, sh>>
    \/ (\E i \in Requests : ReqCatch(i)) /\ UNCHANGED <<rd, ip, call, sh>>

SpecPair == InitPair /\ [][NextPair]_vars

\* The snapshot a request returns when it is alone in environment E
AloneSnapshot(E) ==
    Snapshot(getHostMemory(View(E), E.os), getHostCPUInfo(View(E), E.os),
             getHostCPUUsage(View(E), E.os), getHostDiskUsage(View(E), E.disk),
             DiskTotals(View(E), E.disk), isHostMounted(View(E)))

\* C23: requests in flight together, statement by statement in any order, or
\* one after the other, over an environment that does not change: each
\* snapshot returned is the one the request returns alone, a statement of one
\* request changes nothing of another request, and none changes the
\* environment.
C23_RequestsShareNoState ==
    [][ /\ \A i \in Requests :
              reqs'[i].response.status = 200 => reqs'[i].response.body = AloneSnapshot(env')
        /\ env' = env
        /\ \A i, j \in Requests : (reqs'[i] # reqs[i] /\ j # i) => reqs'[j] = reqs[j] ]_vars

\* C23 witness: two requests were in flight together and both are answered
\* with the snapshot of a mounted host
C23_Witness ==
    /\ \A i \in {1, 2} : reqs[i].pc = "done" /\ reqs[i].response.status = 200
    /\ reqs[1].response.body = reqs[2].response.body
    /\ reqs[1].response.body.hostMounted
    /\ reqs[1].response.body.cpu.count = 2

----------------------------------------------------------------------------
(* SpecLive: GET once started runs on, with a df that may never exit *)

\* The environments of one request, /host not mounted and one container, with
\* a df that hangs among the outcomes of df and a statfsSync that does not
\* return among those of statfsSync
LiveEnvironments ==
    { [E EXCEPT !.disk.df = df, !.disk.statfs[root] = IF hangs THEN StatfsHangs ELSE @] :
        E \in { E \in PairEnvironments : ~E.hostProc /\ E.os.cpus = 1 },
        df \in DfResults \cup {Hangs},
        root \in {"/proc/1/root/"}, hangs \in BOOLEAN }

InitLive ==
    /\ env \in LiveEnvironments
    /\ pc = "idle" /\ hostMounted = FALSE
    /\ memory = [total |-> 0, free |-> 0, available |-> 0]
    /\ cpuInfo = [count |-> 0] /\ cpuUsage = Zero /\ diskUsage = Zero
    /\ response = NoResponse /\ served = 0
    /\ rd = Unused /\ ip = Unused /\ call = Unused /\ reqs = Unused /\ sh = Unused

\* GET once started is synchronous code, which the runtime runs on until the
\* response is returned: while the statement it is at can complete, the
\* handler moves on to another position.  (Every step of NextLive that changes
\* pc from such a position is one of GetMemory .. GetCatch.)
GetAdvances ==
    /\ pc \notin {"idle", "done"}
    /\ pc = "diskUsage" => ~getHostDiskUsageBlocks(View(env), env.disk)
    /\ pc = "respond" => ~statfsSyncBlocks(View(env), env.disk)
    /\ pc' \in {"cpuInfo", "cpuUsage", "diskUsage", "respond", "done"}

NextLive ==
    \/ GetStart /\ UNCHANGED <<rd, ip, call, reqs, sh>>
    \/ GetMemory /\ UNCHANGED <<rd, ip, call, reqs, sh>>
    \/ GetCpuInfo /\ UNCHANGED <<rd, ip, call, reqs, sh>>
    \/ GetCpuUsage /\ UNCHANGED <<rd, ip, call, reqs, sh>>
    \/ GetDiskUsage /\ UNCHANGED <<rd, ip, call, reqs, sh>>
    \/ GetRespond /\ UNCHANGED <<rd, ip, call, reqs, sh>>
    \/ GetCatch /\ UNCHANGED <<rd, ip, call, reqs, sh>>
    \/ GetAgain /\ UNCHANGED <<rd, ip, call, reqs, sh>>

SpecLive == InitLive /\ [][NextLive]_vars /\ WF_pc(GetAdvances)

\* C24 as stated: every request that has started is answered, with a snapshot
\* or with the error object, also when a source hangs: a command that never
\* exits or a file system that does not answer.
C24_EveryRequestIsAnswered ==
    (pc \notin {"idle", "done"}) ~> (pc = "done" /\ response.status \in {200, 500})

----------------------------------------------------------------------------
(* SpecUsers: one run of createTempUsers.sh *)

InitUsers ==
    /\ ShInit
    /\ rd = Unused /\ ip = Unused /\ call = Unused /\ reqs = Unused
    /\ env = Unused /\ pc = "unused" /\ hostMounted = FALSE /\ memory = Unused
    /\ cpuInfo = Unused /\ cpuUsage = Unused /\ diskUsage = Unused
    /\ response = Unused /\ served = 0

UnchangedButScript ==
    UNCHANGED <<rd, ip, call, env, pc, hostMounted, memory, cpuInfo, cpuUsage, diskUsage,
                response, served, reqs>>

NextUsers ==
    \/ ShPrechecks /\ UnchangedButScript
    \/ ShIdCheck /\ UnchangedButScript
    \/ ShUseradd /\ UnchangedButScript
    \/ ShCommand /\ UnchangedButScript
    \/ ShAt /\ UnchangedButScript
    \/ ShRecord /\ UnchangedButScript
    \/ ShSummary /\ UnchangedButScript

SpecUsers == InitUsers /\ [][NextUsers]_vars

\* C25 as stated: when the script has ended, on whatever path, every account
\* it created has a deletion scheduled for 2 hours later.
C25_EveryAccountHasDeletionJob ==
    sh.pc = "exit" => \A user \in sh.made : DeletionJob(user) \in sh.jobs

----------------------------------------------------------------------------
(* Spec: GET, request after request, in an environment that moves *)

Init == InitGet /\ rd = Unused /\ ip = Unused /\ call = Unused /\ reqs = Unused /\ sh = Unused

Next ==
    \/ GetStart /\ UNCHANGED <<rd, ip, call, reqs, sh>>
    \/ GetMemory /\ UNCHANGED <<rd, ip, call, reqs, sh>>
    \/ GetCpuInfo /\ UNCHANGED <<rd, ip, call, reqs, sh>>
    \/ GetCpuUsage /\ UNCHANGED <<rd, ip, call, reqs, sh>>
    \/ GetDiskUsage /\ UNCHANGED <<rd, ip, call, reqs, sh>>
    \/ GetRespond /\ UNCHANGED <<rd, ip, call, reqs, sh>>
    \/ GetCatch /\ UNCHANGED <<rd, ip, call, reqs, sh>>
    \/ GetAgain /\ UNCHANGED <<rd, ip, call, reqs, sh>>
    \/ EnvDiskWrite /\ UNCHANGED <<rd, ip, call, reqs, sh>>
    \/ EnvUnmountHost /\ UNCHANGED <<rd, ip, call, reqs, sh>>
    \/ EnvMemoryMoves /\ UNCHANGED <<rd, ip, call, reqs, sh>>

Spec == Init /\ [][Next]_vars

\* C2 as stated: whatever /proc/stat, the load average and the CPU count are,
\* the cpu usage placed in the snapshot is a number in [0, 100].
C2_CpuUsageIsPercent ==
    response.status = 200 => IsPercent(response.body.cpu.usage)

\* C3 as stated: whatever statfs yields (zero blocks included) and whatever df
\* prints, or both failing, the disk usage placed in the snapshot is a number
\* in [0, 100].
C3_DiskUsageIsPercent ==
    response.status = 200 => IsPercent(response.body.disk.usage)

NoHostAccess ==
    /\ env.fault = "none"
    /\ ~env.proc1root
    /\ ~env.hostProc /\ ~env.hostSys /\ ~env.hostEtc
    /\ \A p \in GetPaths : env.cont[p] \in {Missing, File(NoText)}

\* C7 as stated: without any host access GET still answers, hostMounted is
\* false, the memory figures are those of the container's fallback producer
\* (os.totalmem() and os.freemem(), in whole kB), and the snapshot is fully
\* populated: its usage figures are numbers.
C7_NoHostAccessFullyPopulated ==
    (NoHostAccess /\ pc = "done") =>
        /\ response.status = 200
        /\ ~response.body.hostMounted
        /\ response.body.memory.total = (env.os.totalmem \div KB) * KB
        /\ response.body.memory.available = (env.os.freemem \div KB) * KB
        /\ response.body.memory.free = (env.os.freemem \div KB) * KB
        /\ response.body.cpu.usage.k = "num"
        /\ response.body.disk.usage.k = "num"

\* C9: in every snapshot GET returns, memory.used is memory.total minus
\* memory.available exactly, whatever the memory input.
C9_UsedIsTotalMinusAvailable ==
    response.status = 200 =>
        response.body.memory.used = response.body.memory.total - response.body.memory.available

\* C9 witness: a snapshot whose free and available memory differ
C9_Witness ==
    /\ response.status = 200
    /\ response.body.memory.free # response.body.memory.available
    /\ response.body.memory.used > 0
    /\ response.body.memory.used = response.body.memory.total - response.body.memory.available

\* C10 as stated: in every snapshot memory.available is at most memory.total
\* and memory.used is not negative, whatever lines the meminfo text holds.
C10_AvailableAtMostTotal ==
    response.status = 200 =>
        /\ response.body.memory.available <= response.body.memory.total
        /\ response.body.memory.used >= 0

\* C11 as stated: the CPU count getHostCPUInfo returns, placed in the snapshot
\* as cpu.count, is at least 1 for every input, also when no tier yields a
\* cpuinfo text and the container reports no logical core.
C11_CpuCountAtLeastOne ==
    /\ pc \in {"cpuUsage", "diskUsage", "respond"} => cpuInfo.count >= 1
    /\ response.status = 200 => response.body.cpu.count >= 1

\* A complete snapshot: the four fields and all their figures
CompleteSnapshot(body) ==
    /\ DOMAIN body = {"memory", "cpu", "disk", "hostMounted"}
    /\ DOMAIN body.memory = {"total", "free", "available", "used"}
    /\ DOMAIN body.cpu = {"count", "usage"}
    /\ DOMAIN body.disk = {"total", "used", "free", "usage"}

\* C13: GET ends with a complete snapshot, which only its last step gives, or
\* with the error object and status 500, and never with a partial snapshot:
\* when a step raises, the error object is the response.
C13_SnapshotOrError ==
    [][ (pc # "done" /\ pc' = "done") =>
            \/ /\ pc = "respond"
               /\ response'.status = 200
               /\ CompleteSnapshot(response'.body)
            \/ /\ pc = env.fault
               /\ response'.status = 500
               /\ DOMAIN response'.body = {"error"} ]_vars

\* C13 witness: a step raised after the memory figures were there, and the
\* error object went out
C13_Witness ==
    /\ env.fault = "cpuUsage"
    /\ pc = "done"
    /\ response.status = 500
    /\ memory.total > 0 /\ cpuInfo.count > 0

\* C14: hostMounted is computed once in a request, by the first statement of
\* GET, as "/host/proc, /host/sys and /host/etc all exist" at that moment; no
\* later step of the request changes it, and the snapshot holds that value.
C14_HostMountedOncePerRequest ==
    [][ /\ (pc = "idle" /\ pc' = "memory") =>
              hostMounted' = (env.hostProc /\ env.hostSys /\ env.hostEtc)
        /\ (pc \notin {"idle", "done"}) => hostMounted' = hostMounted
        /\ (pc # "done" /\ pc' = "done" /\ response'.status = 200) =>
              response'.body.hostMounted = hostMounted ]_vars

\* C14 witness: /host was unmounted while the request ran; the snapshot holds
\* the value of the beginning of the request
C14_Witness ==
    /\ pc = "done" /\ response.status = 200
    /\ response.body.hostMounted
    /\ ~isHostMounted(View(env))

\* The tier a read of GET is answered from in the environment as it is
GetSource(p) == readHostFile(View(env), p, NoText).src

\* Something of the snapshot comes from the host: a file read under
\* /proc/1/root or under /host, or the statfs of /proc/1/root/
ReadsFromHost ==
    \/ \E p \in {"/proc/meminfo", "/proc/cpuinfo", "/proc/stat"} : GetSource(p) \in {"proc1", "host"}
    \/ RootPath(View(env)) = "/proc/1/root/" /\ env.disk.statfs["/proc/1/root/"].ok

\* C15 as stated: a snapshot with hostMounted = false holds no metric read
\* from a host source, and a snapshot holding a metric read from a host source
\* has hostMounted = true (stated for requests during which the environment
\* did not change).
C15_HostMountedTellsHostVisibility ==
    (response.status = 200 /\ env.changes = 0) =>
        (ReadsFromHost => response.body.hostMounted)

\* What getHostCPUUsage reads as /proc/stat in the environment as it is
GetStat == readHostFile(View(env), "/proc/stat", NoText)

\* The "cpu " line of that text; <<>> when the text has none
GetStatAggregate ==
    LET lines == SelectSeq(GetStat.v, LAMBDA l : StartsWith(l, "cpu "))
    IN  IF Len(lines) = 0 THEN <<>> ELSE lines[1]

\* user + nice + system + irq + softirq + steal of a "cpu " line
BusyTicks(parts) ==
    FloatOrZero(parts, 2) + FloatOrZero(parts, 3) + FloatOrZero(parts, 4)
        + FloatOrZero(parts, 7) + FloatOrZero(parts, 8) + FloatOrZero(parts, 9)

\* idle + iowait of a "cpu " line
IdleTicks(parts) == FloatOrZero(parts, 5) + FloatOrZero(parts, 6)

\* (1-minute load average / core count) * 100, capped at 100, of the
\* environment as it is
GetLoadPercent ==
    MathMin(JsTimes(JsDivide(getHostLoadAvg(View(env), env.os)[1],
                             100 * getHostCPUInfo(View(env), env.os).count), 100),
            Hundred)

\* C18 as stated: when some tier yields a counter text, getHostCPUUsage
\* returns busy / (busy + idle + iowait) * 100 of its "cpu " line, within
\* [0, 100]; it returns the load-average figure exactly when no tier yields a
\* counter text.
C18_LoadFallbackIffNoCounterFile ==
    [][ (pc = "cpuUsage" /\ pc' = "diskUsage") =>
            IF GetStat.src # "fallback"
            THEN /\ cpuUsage' = JsTimes(JsDivide(BusyTicks(GetStatAggregate),
                                                 BusyTicks(GetStatAggregate) + IdleTicks(GetStatAggregate)),
                                        100)
                 /\ IsPercent(cpuUsage')
            ELSE cpuUsage' = GetLoadPercent ]_vars

\* C18 amended: when the counter text has a "cpu " line of five fields or
\* more whose counters sum to more than 0, getHostCPUUsage returns
\* busy / (busy + idle + iowait) * 100 of that line, within [0, 100]; in every
\* other case (no counter text, no "cpu " line, fewer than five fields, a sum
\* of 0) it returns (1-minute load average / core count) * 100 capped at 100,
\* as floating-point arithmetic gives it.
C18_LoadFallbackIffNoUsableAggregate ==
    [][ (pc = "cpuUsage" /\ pc' = "diskUsage") =>
            IF /\ Len(GetStatAggregate) >= 5
               /\ BusyTicks(GetStatAggregate) + IdleTicks(GetStatAggregate) > 0
            THEN /\ cpuUsage' = JsTimes(JsDivide(BusyTicks(GetStatAggregate),
                                                 BusyTicks(GetStatAggregate) + IdleTicks(GetStatAggregate)),
                                        100)
                 /\ IsPercent(cpuUsage')
            ELSE cpuUsage' = GetLoadPercent ]_vars

\* C18 witness: the host's counter text is read but holds no "cpu " line, and
\* the figure is the load average over the two cores, 125 %, capped at 100
C18_Witness ==
    /\ pc = "diskUsage" /\ env.changes = 0
    /\ GetStat.src = "host"
    /\ GetStat.v = trim(StatNoAggregate)
    /\ getHostCPUInfo(View(env), env.os).count = 2
    /\ getHostLoadAvg(View(env), env.os)[1] = 250
    /\ cpuUsage = Hundred

\* C26: in every snapshot the disk fields satisfy total >= 0, used >= 0,
\* free >= 0 and used + free <= total, and all three are zero when the
\* statfsSync of GET throws.
C26_DiskFieldsWithinTotal ==
    [][ pc = "respond" /\ pc' = "done" /\ response'.status = 200 =>
          LET disk == response'.body.disk
              threw == ~env.disk.statfs[RootPath(View(env))].ok
          IN  /\ disk.total >= 0 /\ disk.used >= 0 /\ disk.free >= 0
              /\ disk.used + disk.free <= disk.total
              /\ threw => disk.total = 0 /\ disk.used = 0 /\ disk.free = 0 ]_vars

\* A snapshot of a root file system with blocks in use and blocks available
C26_Witness ==
    /\ pc = "done" /\ response.status = 200
    /\ response.body.disk.total = 8 /\ response.body.disk.used = 6 /\ response.body.disk.free = 2

\* C30 as stated: in one snapshot, whenever disk.total > 0 disk.usage equals
\* clamp(disk.used / disk.total * 100), and whenever disk.total is 0 because
\* statfsSync threw disk.usage is 0, although the percentage and the totals
\* come from two separate reads of the root path.
C30_UsageDescribesTheTotals ==
    [][ pc = "respond" /\ pc' = "done" /\ response'.status = 200 =>
          LET disk == response'.body.disk
              threw == ~env.disk.statfs[RootPath(View(env))].ok
          IN  /\ disk.total > 0 =>
                    disk.usage = Clamp(JsTimes(JsDivide(disk.used, disk.total), 100))
              /\ (disk.total = 0 /\ threw) => disk.usage = Zero ]_vars

====
